---- MODULE Spec2Model ----
(***************************************************************************)
(* file-viewer: the document navigation and selection engine.              *)
(*                                                                         *)
(* The state is the App struct of src/main.rs (held in the variable app,   *)
(* one record field per struct field), the run_app loop's locals           *)
(* (pending_g, the quit flag), the terminal height read before every key   *)
(* and the build profile, which decides what integer overflow does.        *)
(*                                                                         *)
(* Rust values are modelled as follows.                                    *)
(*   String / &str     a sequence of one-byte strings, <<"f","o","o">>     *)
(*   Vec<T>            a sequence                                          *)
(*   Option<T>         <<>> for None, <<v>> for Some(v)                    *)
(*   (usize, usize)    a pair <<y, x>>, compared lexicographically         *)
(*   usize index i     the number i; a sequence s is read at s[i + 1]      *)
(*   u16               a number in 0..65535; + and - wrap modulo 2^16 in a *)
(*                     build without overflow checks and panic in a build  *)
(*                     with them                                           *)
(*   panic             the field app.panicked; a panicked session takes no *)
(*                     further step                                        *)
(***************************************************************************)
EXTENDS Integers, Sequences, FiniteSets, TLC

VARIABLES
    app,              \* struct App (src/main.rs)
    height,           \* terminal.size()?.height.saturating_sub(1) in run_app
    pending_g,        \* run_app's local pending_g / Context.pending_g
    quit,             \* run_app has returned
    overflow_checks,  \* TRUE: debug profile (overflow panics); FALSE: release (wraps)
    last_cmd,         \* history: the EditorCommand (or handler arm) run by the last key
    spawned,          \* the program and arguments the last key handed to
                      \* std::process::Command, if it handed any
    pages,            \* history: the half-page-down keys not yet answered by a
                      \* half-page-up key, where a specification counts them
    command_arg,      \* the text of a --command <name>:<template> argument
    parsed            \* the Result of CommandSpec::from_str on it, once parsed

vars ==
    <<app, height, pending_g, quit, overflow_checks, last_cmd, spawned, pages,
      command_arg, parsed>>

-----------------------------------------------------------------------------
(* Bounds of the model                                                     *)

MaxHeight == 3

MaxQueryLen == 2

\* A --command argument has at most MaxArgLen bytes.
MaxArgLen == 5

\* A session is followed while the cursor row is at most MaxRow: a build
\* without overflow checks can leave the cursor on row 65535.
MaxRow == 8

\* Overlay lists of at most MaxOverlays items, anchored after lines
\* 0 .. MaxAnchor.
MaxOverlays == 3

MaxAnchor == 2

\* At most MaxPages half-page-down keys in a row.
MaxPages == 3

-----------------------------------------------------------------------------
(* Rust primitives                                                         *)

None == <<>>

Some(v) == <<v>>

IsSome(o) == o # <<>>

Unwrap(o) == o[1]

Min(a, b) == IF a <= b THEN a ELSE b

saturating_sub(a, b) == IF a >= b THEN a - b ELSE 0

U16Modulus == 65536

as_u16(n) == n % U16Modulus

add16(a, b) == [val |-> (a + b) % U16Modulus, ovf |-> a + b >= U16Modulus]

sub16(a, b) == [val |-> (a - b) % U16Modulus, ovf |-> a < b]

\* (usize, usize) tuples are ordered lexicographically by PartialOrd.
tuple_le(p, q) == p[1] < q[1] \/ (p[1] = q[1] /\ p[2] <= q[2])

-----------------------------------------------------------------------------
(* Byte classes                                                            *)

AsciiAlphanumeric ==
    { "a","b","c","d","e","f","g","h","i","j","k","l","m",
      "n","o","p","q","r","s","t","u","v","w","x","y","z",
      "A","B","C","D","E","F","G","H","I","J","K","L","M",
      "N","O","P","Q","R","S","T","U","V","W","X","Y","Z",
      "0","1","2","3","4","5","6","7","8","9" }

is_keyword(b) == b \in AsciiAlphanumeric \/ b = "_"

is_ascii_whitespace(b) == b \in {" ", "\t", "\n", "\f", "\r"}

\* The three predicates handed to skip_forward / skip_backward.
pred(cls, b) ==
    CASE cls = "whitespace" -> is_ascii_whitespace(b)
      [] cls = "keyword"    -> is_keyword(b)
      [] cls = "other"      -> ~is_keyword(b) /\ ~is_ascii_whitespace(b)

-----------------------------------------------------------------------------
(* Document and composed view                                              *)

\* The inner while of compose: the first overlay index >= o_idx whose
\* after_line differs from i.
RECURSIVE overlay_run(_, _, _)
overlay_run(overlays, o_idx, i) ==
    IF o_idx < Len(overlays) /\ overlays[o_idx + 1].after_line = i
    THEN overlay_run(overlays, o_idx + 1, i)
    ELSE o_idx

\* The rows of overlays[from .. to-1], each tagged Overlay.
RECURSIVE overlay_rows(_, _, _)
overlay_rows(overlays, from, to) ==
    IF from >= to THEN <<>>
    ELSE [k \in 1..Len(overlays[from + 1].content) |->
              [kind |-> "Overlay", text |-> overlays[from + 1].content[k]]]
         \o overlay_rows(overlays, from + 1, to)

RECURSIVE compose_from(_, _, _, _)
compose_from(lines, overlays, i, o_idx) ==
    IF i < Len(lines)
    THEN LET o_next == overlay_run(overlays, o_idx, i)
         IN <<[kind |-> "Original", text |-> lines[i + 1]]>>
            \o overlay_rows(overlays, o_idx, o_next)
            \o compose_from(lines, overlays, i + 1, o_next)
    ELSE overlay_rows(overlays, o_idx, Len(overlays))

\* compose that stops after the last base line.
compose_no_trailing(lines, overlays) ==
    compose_from(lines, SelectSeq(overlays, LAMBDA o : o.after_line < Len(lines)),
                 0, 0)

compose(lines, overlays) == compose_from(lines, overlays, 0, 0)

display_lines(a) == compose(a.doc, a.overlays)

line_len(a, line) ==
    LET lines == display_lines(a)
    IN IF line < Len(lines) THEN Len(lines[line + 1].text) ELSE 0

Panic(a) == [a EXCEPT !.panicked = TRUE]

-----------------------------------------------------------------------------
(* Cursor / viewport primitives                                            *)

\* move_left that wraps from column 0 to the end of the row above.
move_left_wraps(a) ==
    IF a.cursor_x > 0 THEN [a EXCEPT !.cursor_x = @ - 1]
    ELSE IF a.cursor_y > 0
         THEN [a EXCEPT !.cursor_y = @ - 1, !.cursor_x = line_len(a, a.cursor_y - 1)]
         ELSE a

move_left(a) ==
    IF a.cursor_x > 0 THEN [a EXCEPT !.cursor_x = @ - 1] ELSE a

move_right(a) ==
    IF a.cursor_x < line_len(a, a.cursor_y)
    THEN [a EXCEPT !.cursor_x = @ + 1]
    ELSE a

\* if self.cursor_x > len { self.cursor_x = len }
clamp_x(a) == [a EXCEPT !.cursor_x = Min(@, line_len(a, a.cursor_y))]

\* if (cursor_y as u16) >= scroll + height { scroll = cursor_y as u16 - height + 1 }
scroll_down_to_cursor(a, h) ==
    LET y16 == as_u16(a.cursor_y)
        lim == add16(a.scroll, h)
        d   == sub16(y16, h)
        s   == add16(d.val, 1)
    IN IF lim.ovf /\ overflow_checks THEN Panic(a)
       ELSE IF y16 >= lim.val
            THEN IF (d.ovf \/ s.ovf) /\ overflow_checks THEN Panic(a)
                 ELSE [a EXCEPT !.scroll = s.val]
            ELSE a

\* if (cursor_y as u16) < scroll { scroll = cursor_y as u16 }
scroll_up_to_cursor(a) ==
    IF as_u16(a.cursor_y) < a.scroll
    THEN [a EXCEPT !.scroll = as_u16(a.cursor_y)]
    ELSE a

\* move_down that scrolls the cursor row to the top of the window.
move_down_scroll_to_top(a, h) ==
    IF a.panicked THEN a
    ELSE IF a.cursor_y + 1 < Len(display_lines(a))
         THEN LET a1 == scroll_down_to_cursor([a EXCEPT !.cursor_y = @ + 1], h)
              IN IF a1.panicked THEN Panic(a)
                 ELSE clamp_x([a1 EXCEPT !.scroll =
                                  IF a1.scroll # a.scroll THEN as_u16(a1.cursor_y)
                                  ELSE @])
         ELSE a

move_down(a, h) ==
    IF a.panicked THEN a
    ELSE IF a.cursor_y + 1 < Len(display_lines(a))
         THEN LET a1 == scroll_down_to_cursor([a EXCEPT !.cursor_y = @ + 1], h)
              IN IF a1.panicked THEN Panic(a) ELSE clamp_x(a1)
         ELSE a

\* move_up that leaves scroll alone.
move_up_keeps_scroll(a) ==
    IF a.panicked THEN a
    ELSE IF a.cursor_y > 0
         THEN clamp_x([a EXCEPT !.cursor_y = @ - 1])
         ELSE a

move_up(a) ==
    IF a.panicked THEN a
    ELSE IF a.cursor_y > 0
         THEN clamp_x(scroll_up_to_cursor([a EXCEPT !.cursor_y = @ - 1]))
         ELSE a

\* ensure_visible that always scrolls the cursor row to the top of the window.
ensure_visible_to_top(a, h) ==
    IF a.panicked THEN a
    ELSE [a EXCEPT !.scroll = as_u16(a.cursor_y)]

ensure_visible(a, h) ==
    IF a.panicked THEN a
    ELSE LET a1 == scroll_down_to_cursor(a, h)
         IN IF a1.panicked THEN a1 ELSE scroll_up_to_cursor(a1)

-----------------------------------------------------------------------------
(* Word motion                                                             *)

char_at(a, y, x) ==
    LET lines == display_lines(a)
    IN IF y < Len(lines) /\ x < Len(lines[y + 1].text)
       THEN Some(lines[y + 1].text[x + 1])
       ELSE None

char_before(a, y, x) ==
    LET lines == display_lines(a)
    IN IF x > 0
       THEN IF y < Len(lines) /\ x - 1 < Len(lines[y + 1].text)
            THEN Some(lines[y + 1].text[x])
            ELSE None
       ELSE IF y > 0
            THEN IF y - 1 < Len(lines) /\ Len(lines[y].text) > 0
                 THEN Some(lines[y].text[Len(lines[y].text)])
                 ELSE None
            ELSE None

\* while *x < bytes.len() && pred(bytes[*x]) { *x += 1 }
RECURSIVE run_forward(_, _, _)
run_forward(bytes, x, cls) ==
    IF x < Len(bytes) /\ pred(cls, bytes[x + 1])
    THEN run_forward(bytes, x + 1, cls)
    ELSE x

RECURSIVE skip_forward(_, _, _, _)
skip_forward(lines, y, x, cls) ==
    IF y < Len(lines)
    THEN LET bytes == lines[y + 1].text
             x1    == run_forward(bytes, x, cls)
         IN IF x1 < Len(bytes) THEN <<y, x1>>
            ELSE IF y + 1 = Len(lines) THEN <<y, x1>>
            ELSE skip_forward(lines, y + 1, 0, cls)
    ELSE <<y, x>>

\* while *x > 0 && pred(bytes[*x - 1]) { *x -= 1 }; reading bytes[*x - 1]
\* past the end of the row panics (ok = FALSE).
RECURSIVE run_backward(_, _, _)
run_backward(bytes, x, cls) ==
    IF x > 0
    THEN IF x - 1 >= Len(bytes) THEN [x |-> x, ok |-> FALSE]
         ELSE IF pred(cls, bytes[x])
              THEN run_backward(bytes, x - 1, cls)
              ELSE [x |-> x, ok |-> TRUE]
    ELSE [x |-> x, ok |-> TRUE]

\* The result carries ok = FALSE when lines[*y] is indexed out of range.
RECURSIVE skip_backward(_, _, _, _)
skip_backward(lines, y, x, cls) ==
    IF y = 0 /\ x = 0 THEN [y |-> y, x |-> x, ok |-> TRUE]
    ELSE IF x = 0
         THEN IF y - 1 >= Len(lines) THEN [y |-> y - 1, x |-> x, ok |-> FALSE]
              ELSE LET x1 == Len(lines[y].text)
                   IN IF x1 = 0 THEN skip_backward(lines, y - 1, 0, cls)
                      ELSE LET r == run_backward(lines[y].text, x1, cls)
                           IN [y |-> y - 1, x |-> r.x, ok |-> r.ok]
         ELSE IF y >= Len(lines) THEN [y |-> y, x |-> x, ok |-> FALSE]
              ELSE LET r == run_backward(lines[y + 1].text, x, cls)
                   IN [y |-> y, x |-> r.x, ok |-> r.ok]

byte_class(c) ==
    IF is_ascii_whitespace(c) THEN "whitespace"
    ELSE IF is_keyword(c) THEN "keyword"
    ELSE "other"

\* move_word_forward without its final skip over whitespace.
move_word_forward_no_whitespace_skip(a) ==
    IF a.panicked THEN a
    ELSE LET lines == display_lines(a)
             c  == char_at(a, a.cursor_y, a.cursor_x)
             p1 == IF IsSome(c)
                   THEN skip_forward(lines, a.cursor_y, a.cursor_x, byte_class(Unwrap(c)))
                   ELSE <<a.cursor_y, a.cursor_x>>
             y  == Min(p1[1], saturating_sub(Len(lines), 1))
         IN [a EXCEPT !.cursor_y = y, !.cursor_x = Min(p1[2], line_len(a, y))]

move_word_forward(a) ==
    IF a.panicked THEN a
    ELSE LET lines == display_lines(a)
             c  == char_at(a, a.cursor_y, a.cursor_x)
             p1 == IF IsSome(c)
                   THEN skip_forward(lines, a.cursor_y, a.cursor_x, byte_class(Unwrap(c)))
                   ELSE <<a.cursor_y, a.cursor_x>>
             p2 == skip_forward(lines, p1[1], p1[2], "whitespace")
             y  == Min(p2[1], saturating_sub(Len(lines), 1))
         IN [a EXCEPT !.cursor_y = y, !.cursor_x = Min(p2[2], line_len(a, y))]

\* move_word_backward without the skip over the run before the whitespace.
move_word_backward_whitespace_only(a) ==
    IF a.panicked THEN a
    ELSE IF a.cursor_y = 0 /\ a.cursor_x = 0 THEN a
    ELSE LET lines == display_lines(a)
             p1 == skip_backward(lines, a.cursor_y, a.cursor_x, "whitespace")
         IN IF ~p1.ok THEN Panic(a)
            ELSE [a EXCEPT !.cursor_y = p1.y, !.cursor_x = p1.x]

move_word_backward(a) ==
    IF a.panicked THEN a
    ELSE IF a.cursor_y = 0 /\ a.cursor_x = 0 THEN a
    ELSE LET lines == display_lines(a)
             p1 == skip_backward(lines, a.cursor_y, a.cursor_x, "whitespace")
             c  == char_before(a, p1.y, p1.x)
             p2 == IF IsSome(c)
                   THEN skip_backward(lines, p1.y, p1.x,
                            IF is_keyword(Unwrap(c)) THEN "keyword" ELSE "other")
                   ELSE p1
         IN IF ~p1.ok \/ ~p2.ok THEN Panic(a)
            ELSE [a EXCEPT !.cursor_y = p2.y, !.cursor_x = p2.x]

-----------------------------------------------------------------------------
(* Paragraph motion                                                        *)

\* line.text().trim().is_empty()
trim_is_empty(text) == \A k \in 1..Len(text) : is_ascii_whitespace(text[k])

\* move_paragraph_down searching from the cursor row itself.
move_paragraph_down_from_cursor(a) ==
    IF a.panicked THEN a
    ELSE LET lines == display_lines(a)
             blank == {i \in a.cursor_y..(Len(lines) - 1) :
                          trim_is_empty(lines[i + 1].text)}
         IN IF blank # {}
            THEN [a EXCEPT !.cursor_y = CHOOSE i \in blank : \A j \in blank : i <= j,
                           !.cursor_x = 0]
            ELSE [a EXCEPT !.cursor_y = saturating_sub(Len(lines), 1),
                           !.cursor_x = 0]

move_paragraph_down(a) ==
    IF a.panicked THEN a
    ELSE LET lines == display_lines(a)
             blank == {i \in (a.cursor_y + 1)..(Len(lines) - 1) :
                          trim_is_empty(lines[i + 1].text)}
         IN IF blank # {}
            THEN [a EXCEPT !.cursor_y = CHOOSE i \in blank : \A j \in blank : i <= j,
                           !.cursor_x = 0]
            ELSE [a EXCEPT !.cursor_y = saturating_sub(Len(lines), 1),
                           !.cursor_x = 0]

move_paragraph_up(a) ==
    IF a.panicked THEN a
    ELSE IF a.cursor_y = 0 THEN a
    ELSE LET lines == display_lines(a)
             blank == {i \in 0..(Min(a.cursor_y, Len(lines)) - 1) :
                          trim_is_empty(lines[i + 1].text)}
         IN IF blank # {}
            THEN [a EXCEPT !.cursor_y = CHOOSE i \in blank : \A j \in blank : i >= j,
                           !.cursor_x = 0]
            ELSE [a EXCEPT !.cursor_y = 0, !.cursor_x = 0]

-----------------------------------------------------------------------------
(* Half-page and screen-relative motion                                    *)

\* for _ in 0..n { self.move_down(height) }
RECURSIVE repeat_move_down(_, _, _)
repeat_move_down(a, n, h) ==
    IF n = 0 THEN a ELSE repeat_move_down(move_down(a, h), n - 1, h)

RECURSIVE repeat_move_up(_, _)
repeat_move_up(a, n) ==
    IF n = 0 THEN a ELSE repeat_move_up(move_up(a), n - 1)

\* half_page_down as one jump of height / 2 rows, clamped to the last row,
\* the column clamped to the row it lands on.
half_page_down_jump(a, h) ==
    IF a.panicked THEN a
    ELSE ensure_visible(
             clamp_x([a EXCEPT !.cursor_y =
                          Min(@ + (h \div 2),
                              saturating_sub(Len(display_lines(a)), 1))]), h)

half_page_down(a, h) == repeat_move_down(a, h \div 2, h)

half_page_up(a, h) == repeat_move_up(a, h \div 2)

cursor_top(a) ==
    IF a.panicked THEN a
    ELSE clamp_x([a EXCEPT !.cursor_y = a.scroll])

cursor_middle(a, h) ==
    IF a.panicked THEN a
    ELSE LET target == add16(a.scroll, h \div 2)
             last   == sub16(as_u16(Len(display_lines(a))), 1)
         IN IF (target.ovf \/ last.ovf) /\ overflow_checks THEN Panic(a)
            ELSE clamp_x([a EXCEPT !.cursor_y = Min(target.val, last.val)])

cursor_bottom(a, h) ==
    IF a.panicked THEN a
    ELSE LET sum    == add16(a.scroll, h)
             target == sub16(sum.val, 1)
             last   == sub16(as_u16(Len(display_lines(a))), 1)
         IN IF (sum.ovf \/ target.ovf \/ last.ovf) /\ overflow_checks THEN Panic(a)
            ELSE clamp_x([a EXCEPT !.cursor_y = Min(target.val, last.val)])

goto_first_line(a) ==
    IF a.panicked THEN a
    ELSE [a EXCEPT !.cursor_y = 0, !.cursor_x = 0]

goto_last_line(a) ==
    IF a.panicked THEN a
    ELSE IF Len(display_lines(a)) # 0
         THEN [a EXCEPT !.cursor_y = Len(display_lines(a)) - 1, !.cursor_x = 0]
         ELSE a

-----------------------------------------------------------------------------
(* Search                                                                  *)

\* line[start..].find(query): the offset, from start, of the first
\* occurrence of query in the rest of the line.
find(line, start, query) ==
    LET occ == {pos \in 0..(Len(line) - start) :
                   /\ start + pos + Len(query) <= Len(line)
                   /\ \A k \in 1..Len(query) : line[start + pos + k] = query[k]}
    IN IF occ = {} THEN None
       ELSE Some(CHOOSE pos \in occ : \A other \in occ : pos <= other)

\* line_hits resuming one byte after a match instead of after its end.
RECURSIVE line_hits_overlapping(_, _, _, _)
line_hits_overlapping(y, line, start, query) ==
    LET pos == find(line, start, query)
    IN IF IsSome(pos)
       THEN <<<<y, start + Unwrap(pos)>>>>
            \o line_hits_overlapping(y, line, start + Unwrap(pos) + 1, query)
       ELSE <<>>

\* while let Some(pos) = line[start..].find(&query) { push; start += pos + len }
RECURSIVE line_hits(_, _, _, _)
line_hits(y, line, start, query) ==
    LET pos == find(line, start, query)
    IN IF IsSome(pos)
       THEN <<<<y, start + Unwrap(pos)>>>>
            \o line_hits(y, line, start + Unwrap(pos) + Len(query), query)
       ELSE <<>>

\* for (y, line) in lines.iter().enumerate() { ... }
RECURSIVE all_hits(_, _, _)
all_hits(lines, y, query) ==
    IF y < Len(lines)
    THEN line_hits(y, lines[y + 1].text, 0, query) \o all_hits(lines, y + 1, query)
    ELSE <<>>

\* set_search_query returning early on an empty query without clearing.
set_search_query_empty_keeps(a, query) ==
    IF a.panicked THEN a
    ELSE IF query = <<>> THEN a
         ELSE LET hits == all_hits(display_lines(a), 0, query)
              IN IF hits = <<>>
                 THEN [a EXCEPT !.search_query = Some(query),
                                !.search_hits = hits,
                                !.current_hit = None]
                 ELSE [a EXCEPT !.search_query = Some(query),
                                !.search_hits = hits,
                                !.current_hit = Some(0),
                                !.cursor_y = hits[1][1],
                                !.cursor_x = hits[1][2]]

set_search_query(a, query) ==
    IF a.panicked THEN a
    ELSE IF query = <<>>
         THEN [a EXCEPT !.search_query = None,
                        !.search_hits = <<>>,
                        !.current_hit = None]
         ELSE LET hits == all_hits(display_lines(a), 0, query)
              IN IF hits = <<>>
                 THEN [a EXCEPT !.search_query = Some(query),
                                !.search_hits = hits,
                                !.current_hit = None]
                 ELSE [a EXCEPT !.search_query = Some(query),
                                !.search_hits = hits,
                                !.current_hit = Some(0),
                                !.cursor_y = hits[1][1],
                                !.cursor_x = hits[1][2]]

\* clear_search forgetting the current-hit index.
clear_search_keeps_current(a) ==
    [a EXCEPT !.search_query = None, !.search_hits = <<>>]

clear_search(a) ==
    [a EXCEPT !.search_query = None, !.search_hits = <<>>, !.current_hit = None]

next_hit(a, h) ==
    IF a.panicked THEN a
    ELSE IF a.search_hits = <<>> THEN a
    ELSE LET next == IF IsSome(a.current_hit)
                     THEN (Unwrap(a.current_hit) + 1) % Len(a.search_hits)
                     ELSE 0
         IN ensure_visible([a EXCEPT !.current_hit = Some(next),
                                     !.cursor_y = a.search_hits[next + 1][1],
                                     !.cursor_x = a.search_hits[next + 1][2]], h)

\* prev_hit stopping at the first hit instead of wrapping to the last.
prev_hit_no_wrap(a, h) ==
    IF a.panicked THEN a
    ELSE IF a.search_hits = <<>> THEN a
    ELSE LET prev == IF a.current_hit = None \/ a.current_hit = Some(0)
                     THEN 0
                     ELSE Unwrap(a.current_hit) - 1
         IN ensure_visible([a EXCEPT !.current_hit = Some(prev),
                                     !.cursor_y = a.search_hits[prev + 1][1],
                                     !.cursor_x = a.search_hits[prev + 1][2]], h)

prev_hit(a, h) ==
    IF a.panicked THEN a
    ELSE IF a.search_hits = <<>> THEN a
    ELSE LET prev == IF a.current_hit = None \/ a.current_hit = Some(0)
                     THEN Len(a.search_hits) - 1
                     ELSE Unwrap(a.current_hit) - 1
         IN ensure_visible([a EXCEPT !.current_hit = Some(prev),
                                     !.cursor_y = a.search_hits[prev + 1][1],
                                     !.cursor_x = a.search_hits[prev + 1][2]], h)

-----------------------------------------------------------------------------
(* Selection                                                               *)

\* normalize returning anchor and cursor in the order given.
normalize_unordered(start, end) == <<start, end>>

\* if start <= end { (start, end) } else { (end, start) }
normalize(start, end) ==
    IF tuple_le(start, end) THEN <<start, end>> ELSE <<end, start>>

-----------------------------------------------------------------------------
(* Rendering                                                               *)

\* Style::default(), with the two attributes highlight_line sets.
DefaultStyle == [bg |-> "Reset", reversed |-> FALSE]

\* The first pass of highlight_line: the bytes of every occurrence of the
\* query get a yellow background.
search_styles(line, query) ==
    LET hits == IF IsSome(query) /\ Unwrap(query) # <<>>
                THEN line_hits(0, line, 0, Unwrap(query))
                ELSE <<>>
    IN [i \in 1..Len(line) |->
           IF \E k \in 1..Len(hits) :
                  hits[k][2] <= i - 1 /\ i - 1 < hits[k][2] + Len(Unwrap(query))
           THEN [DefaultStyle EXCEPT !.bg = "Yellow"]
           ELSE DefaultStyle]

\* highlight_line that reverses the byte at the end position too.
highlight_line_inclusive_end(line, line_idx, query, selection, line_mode) ==
    LET styles == search_styles(line, query)
    IN IF ~IsSome(selection) THEN styles
       ELSE LET start   == Unwrap(selection)[1]
                end     == Unwrap(selection)[2]
                ordered == IF tuple_le(start, end) THEN <<start, end>>
                           ELSE <<end, start>>
                sy == ordered[1][1]
                sx == ordered[1][2]
                ey == ordered[2][1]
                ex == ordered[2][2]
            IN IF line_idx >= sy /\ line_idx <= ey
               THEN IF line_mode
                    THEN [i \in 1..Len(line) |-> [styles[i] EXCEPT !.reversed = TRUE]]
                    ELSE LET sel_start == IF line_idx = sy THEN Min(sx, Len(line)) ELSE 0
                             sel_end   == IF line_idx = ey THEN Min(ex + 1, Len(line))
                                          ELSE Len(line)
                         IN [i \in 1..Len(line) |->
                                IF sel_start <= i - 1 /\ i - 1 < sel_end
                                THEN [styles[i] EXCEPT !.reversed = TRUE]
                                ELSE styles[i]]
               ELSE styles

\* highlight_line, as the style of each byte of the line (the spans it
\* returns are the runs of equal style).
highlight_line(line, line_idx, query, selection, line_mode) ==
    LET styles == search_styles(line, query)
    IN IF ~IsSome(selection) THEN styles
       ELSE LET start   == Unwrap(selection)[1]
                end     == Unwrap(selection)[2]
                ordered == IF tuple_le(start, end) THEN <<start, end>>
                           ELSE <<end, start>>
                sy == ordered[1][1]
                sx == ordered[1][2]
                ey == ordered[2][1]
                ex == ordered[2][2]
            IN IF line_idx >= sy /\ line_idx <= ey
               THEN IF line_mode
                    THEN [i \in 1..Len(line) |-> [styles[i] EXCEPT !.reversed = TRUE]]
                    ELSE LET sel_start == IF line_idx = sy THEN Min(sx, Len(line)) ELSE 0
                             sel_end   == IF line_idx = ey THEN Min(ex, Len(line))
                                          ELSE Len(line)
                         IN [i \in 1..Len(line) |->
                                IF sel_start <= i - 1 /\ i - 1 < sel_end
                                THEN [styles[i] EXCEPT !.reversed = TRUE]
                                ELSE styles[i]]
               ELSE styles

\* ui: the styled rows of the main area (none on the help screen).
ui(a) ==
    IF a.mode.tag = "Help" THEN <<>>
    ELSE LET selection == IF IsSome(a.selection_start)
                          THEN Some(<<Unwrap(a.selection_start),
                                      <<a.cursor_y, a.cursor_x>>>>)
                          ELSE None
             line_mode == a.mode.tag = "VisualLine"
             lines     == display_lines(a)
         IN [i \in 1..Len(lines) |->
                highlight_line(lines[i].text, i - 1, a.search_query, selection,
                               line_mode)]

-----------------------------------------------------------------------------
(* Modes, keys and commands                                                *)

\* enum Mode; Command and Search carry the text typed so far.
Mode(tag) == [tag |-> tag, buf |-> <<>>]

ModeWith(tag, buf) == [tag |-> tag, buf |-> buf]

\* KeyEvent::new(KeyCode::Char(c), KeyModifiers::NONE)
Char(c) == [code |-> "Char", ch |-> c, mods |-> "NONE"]

\* KeyEvent::new(KeyCode::Char(c), KeyModifiers::CONTROL)
Ctrl(c) == [code |-> "Char", ch |-> c, mods |-> "CONTROL"]

\* KeyEvent::new(KeyCode::Esc | Enter | Backspace, KeyModifiers::NONE)
Special(code) == [code |-> code, ch |-> "", mods |-> "NONE"]

\* struct Context
Context(h, g) == [height |-> h, pending_g |-> g]

Ran(a, ctx, q, cmd) ==
    [app |-> a, ctx |-> ctx, quit |-> q, cmd |-> cmd, spawned |-> None]

NoPending(ctx) == [ctx EXCEPT !.pending_g = FALSE]

-----------------------------------------------------------------------------
(* Command templates                                                       *)

\* str::trim on a command line
RECURSIVE trim_start(_)
trim_start(t) ==
    IF t # <<>> /\ is_ascii_whitespace(Head(t)) THEN trim_start(Tail(t)) ELSE t

RECURSIVE trim_end(_)
trim_end(t) ==
    IF t # <<>> /\ is_ascii_whitespace(t[Len(t)])
    THEN trim_end(SubSeq(t, 1, Len(t) - 1))
    ELSE t

\* trim that strips the end of the line only.
trim_end_only(t) == trim_end(t)

trim(t) == trim_end(trim_start(t))

\* String::pop
pop(t) == IF t = <<>> THEN t ELSE SubSeq(t, 1, Len(t) - 1)

Digits == <<"0", "1", "2", "3", "4", "5", "6", "7", "8", "9">>

\* usize::to_string: the decimal numeral of n.
RECURSIVE to_string(_)
to_string(n) ==
    IF n < 10 THEN <<Digits[n + 1]>>
    ELSE to_string(n \div 10) \o <<Digits[(n % 10) + 1]>>

\* s[i..].starts_with(pat)
starts_with(s, i, pat) ==
    i + Len(pat) <= Len(s) /\ SubSeq(s, i + 1, i + Len(pat)) = pat

\* replace stopping after the first occurrence.
RECURSIVE replace_first_from(_, _, _, _)
replace_first_from(s, i, from, to) ==
    IF i >= Len(s) THEN <<>>
    ELSE IF starts_with(s, i, from)
         THEN to \o SubSeq(s, i + Len(from) + 1, Len(s))
         ELSE <<s[i + 1]>> \o replace_first_from(s, i + 1, from, to)

replace_first_only(s, from, to) == replace_first_from(s, 0, from, to)

\* str::replace(from, to): every non-overlapping occurrence of from, found
\* left to right, becomes to.
RECURSIVE replace_from(_, _, _, _)
replace_from(s, i, from, to) ==
    IF i >= Len(s) THEN <<>>
    ELSE IF starts_with(s, i, from)
         THEN to \o replace_from(s, i + Len(from), from, to)
         ELSE <<s[i + 1]>> \o replace_from(s, i + 1, from, to)

replace(s, from, to) == replace_from(s, 0, from, to)

\* cmd.splitn(2, char::is_whitespace): the name up to the first whitespace
\* byte and the text after it (parts.next().unwrap_or("") twice).
splitn2(cmd) ==
    LET ws == {i \in 1..Len(cmd) : is_ascii_whitespace(cmd[i])}
    IN IF ws = {} THEN [name |-> cmd, args |-> <<>>]
       ELSE LET i == CHOOSE i \in ws : \A j \in ws : i <= j
            IN [name |-> SubSeq(cmd, 1, i - 1),
                args |-> SubSeq(cmd, i + 1, Len(cmd))]

\* The length of the run of non-whitespace bytes that starts t.
RECURSIVE word_len(_)
word_len(t) ==
    IF t # <<>> /\ ~is_ascii_whitespace(Head(t)) THEN 1 + word_len(Tail(t)) ELSE 0

\* split(' '): an empty string yields one empty word.
RECURSIVE split_keeps_empty(_)
split_keeps_empty(s) ==
    LET n == word_len(s)
    IN IF n = Len(s) THEN <<s>>
       ELSE <<SubSeq(s, 1, n)>> \o split_keeps_empty(SubSeq(s, n + 2, Len(s)))

\* template.split_whitespace().collect()
RECURSIVE split_whitespace(_)
split_whitespace(s) ==
    LET t == trim_start(s)
    IN IF t = <<>> THEN <<>>
       ELSE <<SubSeq(t, 1, word_len(t))>>
            \o split_whitespace(SubSeq(t, word_len(t) + 1, Len(t)))

\* The placeholder tokens.
TokLine == <<"{", "l", "i", "n", "e", "}">>
TokCol == <<"{", "c", "o", "l", "}">>
TokArgs == <<"{", "a", "r", "g", "s", "}">>
TokStartLine == <<"{", "s", "t", "a", "r", "t", "_", "l", "i", "n", "e", "}">>
TokStartCol == <<"{", "s", "t", "a", "r", "t", "_", "c", "o", "l", "}">>
TokEndLine == <<"{", "e", "n", "d", "_", "l", "i", "n", "e", "}">>
TokEndCol == <<"{", "e", "n", "d", "_", "c", "o", "l", "}">>

\* app.commands.get(name)
commands_get(commands, name) ==
    IF name \in DOMAIN commands THEN Some(commands[name]) ELSE None

\* s.splitn(2, ':').collect(): the text before the first ':' and the text
\* after it, or s alone.
splitn2_colon(s) ==
    LET at == {i \in 1..Len(s) : s[i] = ":"}
    IN IF at = {} THEN <<s>>
       ELSE LET i == CHOOSE i \in at : \A j \in at : i <= j
            IN <<SubSeq(s, 1, i - 1), SubSeq(s, i + 1, Len(s))>>

\* Result<CommandSpec, String>
Ok(name, template) == [ok |-> TRUE, name |-> name, template |-> template, err |-> ""]

Err(msg) == [ok |-> FALSE, name |-> <<>>, template |-> <<>>, err |-> msg]

\* CommandSpec::from_str splitting at the last ':'.
from_str_rsplit(s) ==
    LET at == {i \in 1..Len(s) : s[i] = ":"}
    IN IF at = {}
       THEN Err("expected <name>: <template>")
       ELSE LET i        == CHOOSE i \in at : \A j \in at : i >= j
                name     == trim(SubSeq(s, 1, i - 1))
                template == trim(SubSeq(s, i + 1, Len(s)))
            IN IF name = <<>> \/ template = <<>>
               THEN Err("name or template empty")
               ELSE Ok(name, template)

\* CommandSpec::from_str
from_str(s) ==
    LET parts == splitn2_colon(s)
    IN IF Len(parts) # 2
       THEN Err("expected <name>: <template>")
       ELSE LET name     == trim(parts[1])
                template == trim(parts[2])
            IN IF name = <<>> \/ template = <<>>
               THEN Err("name or template empty")
               ELSE Ok(name, template)

\* The selection range of a submit that ignores the anchor.
selection_range_cursor_only(a) ==
    << <<a.cursor_y, a.cursor_x>>, <<a.cursor_y, a.cursor_x>> >>

\* match app.selection_start { Some(start) => ordered (start, end), None => (pos, pos) }
selection_range(a) ==
    IF IsSome(a.selection_start)
    THEN normalize(Unwrap(a.selection_start), <<a.cursor_y, a.cursor_x>>)
    ELSE << <<a.cursor_y, a.cursor_x>>, <<a.cursor_y, a.cursor_x>> >>

\* The replacements of CommandSubmit with that of {args} made last.
resolve_args_last(template, a, args) ==
    LET r  == selection_range(a)
        t1 == replace(template, TokLine, to_string(a.cursor_y + 1))
        t2 == replace(t1, TokCol, to_string(a.cursor_x + 1))
        t4 == replace(t2, TokStartLine, to_string(r[1][1] + 1))
        t5 == replace(t4, TokStartCol, to_string(r[1][2] + 1))
        t6 == replace(t5, TokEndLine, to_string(r[2][1] + 1))
        t7 == replace(t6, TokEndCol, to_string(r[2][2] + 1))
    IN replace(t7, TokArgs, args)

\* The seven replacements of CommandSubmit, in the order of the code.
resolve(template, a, args) ==
    LET r  == selection_range(a)
        t1 == replace(template, TokLine, to_string(a.cursor_y + 1))
        t2 == replace(t1, TokCol, to_string(a.cursor_x + 1))
        t3 == replace(t2, TokArgs, args)
        t4 == replace(t3, TokStartLine, to_string(r[1][1] + 1))
        t5 == replace(t4, TokStartCol, to_string(r[1][2] + 1))
        t6 == replace(t5, TokEndLine, to_string(r[2][1] + 1))
    IN replace(t6, TokEndCol, to_string(r[2][2] + 1))

\* EditorCommand::CommandSubmit with the table looked up ahead of the
\* built-in lines.
command_submit_table_first(a) ==
    LET cmd   == IF a.mode.tag = "Command" THEN trim(a.mode.buf) ELSE <<>>
        parts == splitn2(cmd)
        spec  == commands_get(a.commands, parts.name)
        words == split_whitespace(resolve(Unwrap(spec).template, a, parts.args))
    IN IF IsSome(spec)
       THEN [app |-> [a EXCEPT !.mode = Mode("Normal")],
             quit |-> FALSE,
             spawned |-> IF words # <<>> THEN Some(words) ELSE None]
       ELSE IF cmd = <<"q">>
       THEN [app |-> a, quit |-> TRUE, spawned |-> None]
       ELSE IF cmd = <<"h", "e", "l", "p">>
       THEN [app |-> [a EXCEPT !.mode = Mode("Help")], quit |-> FALSE,
             spawned |-> None]
       ELSE [app |-> [a EXCEPT !.mode = Mode("Normal")], quit |-> FALSE,
             spawned |-> None]

\* EditorCommand::CommandSubmit: the new App, whether the session quits and
\* the command handed to std::process::Command.
command_submit(a) ==
    LET cmd == IF a.mode.tag = "Command" THEN trim(a.mode.buf) ELSE <<>>
    IN IF cmd = <<"q">>
       THEN [app |-> a, quit |-> TRUE, spawned |-> None]
       ELSE IF cmd = <<"h", "e", "l", "p">>
       THEN [app |-> [a EXCEPT !.mode = Mode("Help")], quit |-> FALSE,
             spawned |-> None]
       ELSE LET parts == splitn2(cmd)
                spec  == commands_get(a.commands, parts.name)
                words == split_whitespace(
                             resolve(Unwrap(spec).template, a, parts.args))
            IN [app |-> [a EXCEPT !.mode = Mode("Normal")],
                quit |-> FALSE,
                spawned |-> IF IsSome(spec) /\ words # <<>>
                            THEN Some(words)
                            ELSE None]

-----------------------------------------------------------------------------
(* EditorCommand::run                                                      *)

\* CancelSelection leaving the anchor in place.
cancel_selection_keeps_anchor(a) == [a EXCEPT !.mode = Mode("Normal")]

\* app.mode = Mode::Normal; app.selection_start = None
cancel_selection(a) ==
    [a EXCEPT !.mode = Mode("Normal"), !.selection_start = None]

\* EditorCommand::run for the commands the normal, visual, help and command
\* tables bind.
run(cmd, a, ctx) ==
    CASE cmd = "Quit" -> Ran(a, ctx, TRUE, cmd)
      [] cmd = "EnterVisual" ->
            Ran([a EXCEPT !.mode = Mode("Visual"),
                          !.selection_start = Some(<<a.cursor_y, a.cursor_x>>)],
                NoPending(ctx), FALSE, cmd)
      [] cmd = "EnterVisualLine" ->
            Ran([a EXCEPT !.mode = Mode("VisualLine"),
                          !.selection_start = Some(<<a.cursor_y, a.cursor_x>>)],
                NoPending(ctx), FALSE, cmd)
      [] cmd = "GotoFirstOrPending" ->
            IF ctx.pending_g
            THEN Ran(ensure_visible(goto_first_line(a), ctx.height),
                     NoPending(ctx), FALSE, cmd)
            ELSE Ran(a, [ctx EXCEPT !.pending_g = TRUE], FALSE, cmd)
      [] cmd = "EnterHelp" ->
            Ran([a EXCEPT !.mode = Mode("Help")], NoPending(ctx), FALSE, cmd)
      [] cmd = "GotoLastLine" ->
            Ran(ensure_visible(goto_last_line(a), ctx.height),
                NoPending(ctx), FALSE, cmd)
      [] cmd = "EnterSearch" ->
            Ran([a EXCEPT !.mode = Mode("Search")], NoPending(ctx), FALSE, cmd)
      [] cmd = "NextHit" -> Ran(next_hit(a, ctx.height), ctx, FALSE, cmd)
      [] cmd = "PrevHit" -> Ran(prev_hit(a, ctx.height), ctx, FALSE, cmd)
      [] cmd = "EnterCommand" ->
            Ran([a EXCEPT !.mode = Mode("Command")], NoPending(ctx), FALSE, cmd)
      [] cmd = "MoveLeft" -> Ran(move_left(a), ctx, FALSE, cmd)
      [] cmd = "MoveDown" -> Ran(move_down(a, ctx.height), ctx, FALSE, cmd)
      [] cmd = "MoveUp" -> Ran(move_up(a), ctx, FALSE, cmd)
      [] cmd = "MoveRight" -> Ran(move_right(a), ctx, FALSE, cmd)
      [] cmd = "MoveWordForward" ->
            Ran(ensure_visible(move_word_forward(a), ctx.height), ctx, FALSE, cmd)
      [] cmd = "MoveWordBackward" ->
            Ran(ensure_visible(move_word_backward(a), ctx.height), ctx, FALSE, cmd)
      [] cmd = "MoveParagraphUp" ->
            Ran(ensure_visible(move_paragraph_up(a), ctx.height), ctx, FALSE, cmd)
      [] cmd = "MoveParagraphDown" ->
            Ran(ensure_visible(move_paragraph_down(a), ctx.height), ctx, FALSE, cmd)
      [] cmd = "HalfPageUp" -> Ran(half_page_up(a, ctx.height), ctx, FALSE, cmd)
      [] cmd = "HalfPageDown" -> Ran(half_page_down(a, ctx.height), ctx, FALSE, cmd)
      [] cmd = "CursorTop" ->
            Ran(ensure_visible(cursor_top(a), ctx.height), ctx, FALSE, cmd)
      [] cmd = "CursorMiddle" ->
            Ran(ensure_visible(cursor_middle(a, ctx.height), ctx.height),
                ctx, FALSE, cmd)
      [] cmd = "CursorBottom" ->
            Ran(ensure_visible(cursor_bottom(a, ctx.height), ctx.height),
                ctx, FALSE, cmd)
      [] cmd = "CancelSelection" -> Ran(cancel_selection(a), ctx, FALSE, cmd)
      [] cmd = "ExitHelp" -> Ran([a EXCEPT !.mode = Mode("Normal")], ctx, FALSE, cmd)
      [] cmd = "ExitCommand" ->
            Ran([a EXCEPT !.mode = Mode("Normal")], ctx, FALSE, cmd)
      [] cmd = "CommandSubmit" ->
            LET r == command_submit(a)
            IN [Ran(r.app, ctx, r.quit, cmd) EXCEPT !.spawned = r.spawned]
      [] cmd = "CommandBackspace" ->
            Ran(IF a.mode.tag = "Command"
                THEN [a EXCEPT !.mode = ModeWith("Command", pop(a.mode.buf))]
                ELSE a,
                ctx, FALSE, cmd)

\* EditorCommand::CommandChar(ch).run
run_command_char(ch, a, ctx) ==
    Ran(IF a.mode.tag = "Command"
        THEN [a EXCEPT !.mode = ModeWith("Command", Append(a.mode.buf, ch))]
        ELSE a,
        ctx, FALSE, "CommandChar")

NORMAL_BINDINGS ==
    <<
       [key |-> Char("v"), command |-> "EnterVisual"],
       [key |-> Char("V"), command |-> "EnterVisualLine"],
       [key |-> Char("g"), command |-> "GotoFirstOrPending"],
       [key |-> Char("?"), command |-> "EnterHelp"],
       [key |-> Char("G"), command |-> "GotoLastLine"],
       [key |-> Char("/"), command |-> "EnterSearch"],
       [key |-> Char("n"), command |-> "NextHit"],
       [key |-> Char("N"), command |-> "PrevHit"],
       [key |-> Char(":"), command |-> "EnterCommand"],
       [key |-> Char("q"), command |-> "Quit"],
       [key |-> Char("h"), command |-> "MoveLeft"],
       [key |-> Char("j"), command |-> "MoveDown"],
       [key |-> Char("k"), command |-> "MoveUp"],
       [key |-> Char("l"), command |-> "MoveRight"],
       [key |-> Char("w"), command |-> "MoveWordForward"],
       [key |-> Char("b"), command |-> "MoveWordBackward"],
       [key |-> Char("{"), command |-> "MoveParagraphUp"],
       [key |-> Char("}"), command |-> "MoveParagraphDown"],
       [key |-> Ctrl("u"), command |-> "HalfPageUp"],
       [key |-> Ctrl("d"), command |-> "HalfPageDown"],
       [key |-> Char("H"), command |-> "CursorTop"],
       [key |-> Char("M"), command |-> "CursorMiddle"],
       [key |-> Char("L"), command |-> "CursorBottom"]
    >>

VISUAL_BINDINGS ==
    <<
       [key |-> Ctrl("c"), command |-> "CancelSelection"],
       [key |-> Char("q"), command |-> "Quit"],
       [key |-> Char("?"), command |-> "EnterHelp"],
       [key |-> Char("h"), command |-> "MoveLeft"],
       [key |-> Char("j"), command |-> "MoveDown"],
       [key |-> Char("k"), command |-> "MoveUp"],
       [key |-> Char("l"), command |-> "MoveRight"],
       [key |-> Char("w"), command |-> "MoveWordForward"],
       [key |-> Char("b"), command |-> "MoveWordBackward"],
       [key |-> Char("{"), command |-> "MoveParagraphUp"],
       [key |-> Char("}"), command |-> "MoveParagraphDown"],
       [key |-> Ctrl("u"), command |-> "HalfPageUp"],
       [key |-> Ctrl("d"), command |-> "HalfPageDown"],
       [key |-> Char("H"), command |-> "CursorTop"],
       [key |-> Char("M"), command |-> "CursorMiddle"],
       [key |-> Char("L"), command |-> "CursorBottom"]
    >>

HELP_BINDINGS ==
    <<
       [key |-> Char("q"), command |-> "ExitHelp"],
       [key |-> Special("Esc"), command |-> "ExitHelp"]
    >>

COMMAND_BINDINGS ==
    <<
       [key |-> Special("Esc"), command |-> "ExitCommand"],
       [key |-> Ctrl("c"), command |-> "ExitCommand"],
       [key |-> Special("Enter"), command |-> "CommandSubmit"],
       [key |-> Special("Backspace"), command |-> "CommandBackspace"]
    >>

\* for b in bindings { if b.key == key { return b.command.run(app, ctx) } }
lookup_and_run(bindings, key, a, ctx) ==
    LET hit == {i \in 1..Len(bindings) : bindings[i].key = key}
    IN IF hit # {}
       THEN run(bindings[CHOOSE i \in hit : \A j \in hit : i <= j].command, a, ctx)
       ELSE Ran(a, NoPending(ctx), FALSE, "Unbound")

\* Command mode dispatched through its binding table: a bound key runs its
\* command, any other character key runs CommandChar.
command_binding_handle(a, key, ctx) ==
    IF key.code = "Char" /\ \A i \in 1..Len(COMMAND_BINDINGS) : COMMAND_BINDINGS[i].key # key
    THEN run_command_char(key.ch, a, ctx)
    ELSE lookup_and_run(COMMAND_BINDINGS, key, a, ctx)

-----------------------------------------------------------------------------
(* Key handlers (src/keymaps)                                              *)

normal_handle(a, key, ctx) == lookup_and_run(NORMAL_BINDINGS, key, a, ctx)

\* keymaps::visual::handle: a match on key.code; only the Ctrl arms look at
\* the modifiers. It leaves pending_g alone.
visual_handle(a, key, ctx) ==
    LET h == ctx.height
        is(c) == key.code = "Char" /\ key.ch = c
        ctrl == key.mods = "CONTROL"
    IN CASE is("c") /\ ctrl -> Ran(cancel_selection(a), ctx, FALSE, "CancelSelection")
         [] is("q") -> Ran(a, ctx, TRUE, "Quit")
         [] is("h") -> Ran(move_left(a), ctx, FALSE, "MoveLeft")
         [] is("j") -> Ran(move_down(a, h), ctx, FALSE, "MoveDown")
         [] is("k") -> Ran(move_up(a), ctx, FALSE, "MoveUp")
         [] is("l") -> Ran(move_right(a), ctx, FALSE, "MoveRight")
         [] is("w") -> Ran(ensure_visible(move_word_forward(a), h), ctx, FALSE,
                           "MoveWordForward")
         [] is("b") -> Ran(ensure_visible(move_word_backward(a), h), ctx, FALSE,
                           "MoveWordBackward")
         [] is("{") -> Ran(ensure_visible(move_paragraph_up(a), h), ctx, FALSE,
                           "MoveParagraphUp")
         [] is("}") -> Ran(ensure_visible(move_paragraph_down(a), h), ctx, FALSE,
                           "MoveParagraphDown")
         [] is("u") /\ ctrl -> Ran(half_page_up(a, h), ctx, FALSE, "HalfPageUp")
         [] is("d") /\ ctrl -> Ran(half_page_down(a, h), ctx, FALSE, "HalfPageDown")
         [] is("H") -> Ran(ensure_visible(cursor_top(a), h), ctx, FALSE, "CursorTop")
         [] is("M") -> Ran(ensure_visible(cursor_middle(a, h), h), ctx, FALSE,
                           "CursorMiddle")
         [] is("L") -> Ran(ensure_visible(cursor_bottom(a, h), h), ctx, FALSE,
                           "CursorBottom")
         [] OTHER -> Ran(a, ctx, FALSE, "Unbound")

\* keymaps::help::handle with q quitting the session, as in normal mode.
help_handle_q_quits(a, key, ctx) ==
    IF key.code = "Char" /\ key.ch = "q"
    THEN Ran(a, ctx, TRUE, "Quit")
    ELSE IF key.code = "Esc"
         THEN Ran([a EXCEPT !.mode = Mode("Normal")], ctx, FALSE, "ExitHelp")
         ELSE Ran(a, ctx, FALSE, "Unbound")

\* keymaps::help::handle
help_handle(a, key, ctx) ==
    IF (key.code = "Char" /\ key.ch = "q") \/ key.code = "Esc"
    THEN Ran([a EXCEPT !.mode = Mode("Normal")], ctx, FALSE, "ExitHelp")
    ELSE Ran(a, ctx, FALSE, "Unbound")

\* run_app writes the edited buffer back while the mode is still the
\* buffer's mode: if matches!(app.mode, Mode::Command(_)) { app.mode = Mode::Command(cmd) }
write_back(a, tag, buf) ==
    IF a.mode.tag = tag THEN [a EXCEPT !.mode = ModeWith(tag, buf)] ELSE a

\* keymaps::command::handle
command_handle(a, key, ctx) ==
    LET cmd == a.mode.buf
    IN CASE key.code = "Esc" ->
              Ran([a EXCEPT !.mode = Mode("Normal")], ctx, FALSE, "ExitCommand")
         [] key.code = "Char" /\ key.ch = "c" /\ key.mods = "CONTROL" ->
              Ran([a EXCEPT !.mode = Mode("Normal")], ctx, FALSE, "ExitCommand")
         [] key.code = "Enter" ->
              IF trim(cmd) = <<"q">>
              THEN Ran(a, ctx, TRUE, "CommandSubmit")
              ELSE IF trim(cmd) = <<"h", "e", "l", "p">>
                   THEN Ran([a EXCEPT !.mode = Mode("Help")], ctx, FALSE,
                            "CommandSubmit")
                   ELSE Ran([a EXCEPT !.mode = Mode("Normal")], ctx, FALSE,
                            "CommandSubmit")
         [] key.code = "Backspace" ->
              Ran(write_back(a, "Command", pop(cmd)), ctx, FALSE, "CommandBackspace")
         [] key.code = "Char" ->
              Ran(write_back(a, "Command", Append(cmd, key.ch)), ctx, FALSE,
                  "CommandChar")
         [] OTHER -> Ran(a, ctx, FALSE, "Unbound")

\* keymaps::search::handle with the Char arm ahead of the Ctrl-C arm.
search_handle_appends_c(a, key, ctx) ==
    LET query == a.mode.buf
    IN CASE key.code = "Char" ->
              Ran(write_back(a, "Search", Append(query, key.ch)), ctx, FALSE,
                  "SearchChar")
         [] key.code = "Esc" ->
              Ran([a EXCEPT !.mode = Mode("Normal")], ctx, FALSE, "ExitSearch")
         [] key.code = "Enter" ->
              Ran(ensure_visible([set_search_query(a, query)
                                     EXCEPT !.mode = Mode("Normal")], ctx.height),
                  ctx, FALSE, "SearchSubmit")
         [] key.code = "Backspace" ->
              Ran(write_back(a, "Search", pop(query)), ctx, FALSE, "SearchBackspace")
         [] OTHER -> Ran(a, ctx, FALSE, "Unbound")

\* keymaps::search::handle
search_handle(a, key, ctx) ==
    LET query == a.mode.buf
    IN CASE key.code = "Char" /\ key.ch = "c" /\ key.mods = "CONTROL" ->
              Ran([clear_search(a) EXCEPT !.mode = Mode("Normal")], ctx, FALSE,
                  "ClearSearch")
         [] key.code = "Esc" ->
              Ran([a EXCEPT !.mode = Mode("Normal")], ctx, FALSE, "ExitSearch")
         [] key.code = "Enter" ->
              Ran(ensure_visible([set_search_query(a, query)
                                     EXCEPT !.mode = Mode("Normal")], ctx.height),
                  ctx, FALSE, "SearchSubmit")
         [] key.code = "Backspace" ->
              Ran(write_back(a, "Search", pop(query)), ctx, FALSE, "SearchBackspace")
         [] key.code = "Char" ->
              Ran(write_back(a, "Search", Append(query, key.ch)), ctx, FALSE,
                  "SearchChar")
         [] OTHER -> Ran(a, ctx, FALSE, "Unbound")

-----------------------------------------------------------------------------
(* Inputs: documents, keys, typed text                                     *)

\* An empty file: content.lines() yields no line.
DocEmpty == <<>>

\* The word-motion example of the specification.
DocFoo ==
    <<<<"f", "o", "o", " ", "b", "a", "r", "_", "b", "a", "z", " ", "4", "2", "!", "!">>>>

\* The search example of the specification.
DocAbAb ==
    <<<<"a", "b", " ", "a", "b">>,
      <<"a", "b">>>>

\* A row on which occurrences of "aa" overlap.
DocAaa ==
    <<<<"a", "a", "a">>>>

\* Runs that end at the end of a row.
DocRuns ==
    <<<<"a", "b">>,
      <<"b", "a">>,
      <<"!", "!">>,
      <<"!", "a">>>>

\* Rows of different length, blank rows, a row of five bytes and more.
DocPara ==
    <<<<"a", " ", "b">>,
      <<>>,
      <<"a", "b", "!", "b", "a">>,
      <<" ">>>>

\* The smallest document with two rows, a word and whitespace.
DocTiny ==
    <<<<"a", " ">>,
      <<"b">>>>

\* Whitespace on both sides of a row boundary.
DocGap ==
    <<<<"a", " ">>,
      <<" ", "b">>>>

Docs == {DocTiny, DocEmpty, DocFoo, DocAbAb, DocAaa, DocRuns, DocPara}

Heights == 0..MaxHeight

\* Every key some binding table or handler of the repository names, and a
\* key that none of them binds.
Keys ==
    {NORMAL_BINDINGS[i].key : i \in 1..Len(NORMAL_BINDINGS)}
    \cup {Ctrl("c"), Special("Esc"), Special("Enter"), Special("Backspace"),
          Char("a")}

\* The bytes typed into a search query.
QueryChars == {"a", "b"}

\* The command lines typed in command mode (and every prefix of them).
CommandLines == {<<"q">>, <<"h", "e", "l", "p">>, <<" ", "q">>}

Range(seq) == {seq[i] : i \in 1..Len(seq)}

IsPrefix(p, t) == Len(p) <= Len(t) /\ SubSeq(t, 1, Len(p)) = p

\* The keys pressed while a buffer is edited: the keys the handler names and
\* the bytes that keep the buffer inside the inputs above.
TypedKeys(a) ==
    {Ctrl("c"), Special("Esc"), Special("Enter"), Special("Backspace")}
    \cup IF a.mode.tag = "Search"
         THEN {Char(c) : c \in {c \in QueryChars : Len(a.mode.buf) < MaxQueryLen}}
         ELSE {Char(c) : c \in {c \in {"q", "h", "e", "l", "p", " "} :
                   \E t \in CommandLines : IsPrefix(Append(a.mode.buf, c), t)}}

-----------------------------------------------------------------------------
(* The session                                                             *)

\* The command table of the session (one --command <name>:<template> per
\* entry): the example of the specification, a template of the four
\* selection placeholders, a template that is its argument text alone and
\* a template that names a placeholder twice.
Commands ==
    (<<"e">> :> [name |-> <<"e">>,
           template |->
             <<"e", "c", "h", "o", " ", "{", "l", "i", "n", "e", "}", " ", "{", "c", "o", "l", "}", " ", "{", "a", "r", "g", "s", "}">>])
    @@ (<<"s">> :> [name |-> <<"s">>,
           template |->
             <<"s", "e", "l", " ", "{", "s", "t", "a", "r", "t", "_", "l", "i", "n", "e", "}", " ", "{", "s", "t", "a", "r", "t", "_", "c", "o", "l", "}", " ", "{", "e", "n", "d", "_", "l", "i", "n", "e", "}", " ", "{", "e", "n", "d", "_", "c", "o", "l", "}">>])
    @@ (<<"x">> :> [name |-> <<"x">>,
           template |->
             <<"{", "a", "r", "g", "s", "}">>])
    @@ (<<"d">> :> [name |-> <<"d">>,
           template |->
             <<"p", " ", "{", "l", "i", "n", "e", "}", "{", "l", "i", "n", "e", "}">>])

\* App::new(content), after Document::new split the content into lines.
App_new(lines) ==
    [ doc             |-> lines,
      overlays        |-> <<>>,
      cursor_x        |-> 0,
      cursor_y        |-> 0,
      scroll          |-> 0,
      mode            |-> Mode("Normal"),
      search_query    |-> None,
      search_hits     |-> <<>>,
      current_hit     |-> None,
      selection_start |-> None,
      commands        |-> Commands,
      panicked        |-> FALSE ]

\* A session on one of the given documents, in a terminal of one of the
\* given heights, built with or without overflow checks.
InitOn(docs, heights) ==
    /\ app \in {App_new(d) : d \in docs}
    /\ height \in heights
    /\ pending_g = FALSE
    /\ quit = FALSE
    /\ overflow_checks \in BOOLEAN
    /\ last_cmd = "None"
    /\ spawned = None
    /\ pages = 0
    /\ command_arg = <<>>
    /\ parsed = None

\* run_app's loop body runs while the session has neither quit nor panicked.
Running == ~quit /\ ~app.panicked /\ app.cursor_y <= MaxRow

\* One turn of run_app's loop: the handler's effects become the new state.
StepCounting(r, p) ==
    /\ app' = r.app
    /\ pending_g' = r.ctx.pending_g
    /\ quit' = r.quit
    /\ last_cmd' = r.cmd
    /\ spawned' = r.spawned
    /\ pages' = p
    /\ UNCHANGED <<height, overflow_checks, command_arg, parsed>>

Step(r) == StepCounting(r, pages)

PressNormal ==
    /\ Running /\ app.mode.tag = "Normal"
    /\ \E key \in Keys : Step(normal_handle(app, key, Context(height, pending_g)))

PressVisual ==
    /\ Running /\ app.mode.tag \in {"Visual", "VisualLine"}
    /\ \E key \in Keys : Step(visual_handle(app, key, Context(height, pending_g)))

\* Visual mode dispatched through its binding table, as normal mode is.
PressVisualBinding ==
    /\ Running /\ app.mode.tag \in {"Visual", "VisualLine"}
    /\ \E key \in Keys :
          Step(lookup_and_run(VISUAL_BINDINGS, key, app, Context(height, pending_g)))

PressCommand ==
    /\ Running /\ app.mode.tag = "Command"
    /\ \E key \in TypedKeys(app) :
          Step(command_handle(app, key, Context(height, pending_g)))

PressSearch ==
    /\ Running /\ app.mode.tag = "Search"
    /\ \E key \in TypedKeys(app) :
          Step(search_handle(app, key, Context(height, pending_g)))

PressHelp ==
    /\ Running /\ app.mode.tag = "Help"
    /\ \E key \in Keys : Step(help_handle(app, key, Context(height, pending_g)))

\* The whole session: every mode, every key.
Init == InitOn({DocEmpty, DocTiny}, Heights)

Next ==
    \/ PressNormal
    \/ PressVisual
    \/ PressVisualBinding
    \/ PressCommand
    \/ PressSearch
    \/ PressHelp

Spec == Init /\ [][Next]_vars

\* Motion only: normal mode, the keys bound to motion intents.
MotionKeys ==
    {Char("h"), Char("j"), Char("k"), Char("l"), Char("w"), Char("b"),
     Char("{"), Char("}"), Ctrl("u"), Ctrl("d"), Char("H"), Char("M"),
     Char("L"), Char("g"), Char("G")}

PressMotion ==
    /\ Running /\ app.mode.tag = "Normal"
    /\ \E key \in MotionKeys :
          Step(normal_handle(app, key, Context(height, pending_g)))

InitMotion == InitOn(Docs, Heights)

SpecMotion == InitMotion /\ [][PressMotion]_vars

\* Search: normal mode with the search keys and the single-step motions,
\* and search mode.
SearchKeys ==
    {Char("/"), Char("n"), Char("N"), Char("h"), Char("j"), Char("k"),
     Char("l")}

PressNormalSearch ==
    /\ Running /\ app.mode.tag = "Normal"
    /\ \E key \in SearchKeys :
          Step(normal_handle(app, key, Context(height, pending_g)))

InitSearch == InitOn({DocEmpty, DocAbAb, DocAaa, DocRuns}, Heights)

NextSearch == PressNormalSearch \/ PressSearch

SpecSearch == InitSearch /\ [][NextSearch]_vars

\* Selection: normal mode with the keys that open a selection and the
\* single-step and word motions, and visual mode under both dispatchers.
SelectKeys ==
    {Char("v"), Char("V"), Char("h"), Char("j"), Char("k"), Char("l"),
     Char("w"), Char("b"), Ctrl("c"), Char("?"), Char("q"), Special("Esc")}

PressNormalSelect ==
    /\ Running /\ app.mode.tag = "Normal"
    /\ \E key \in SelectKeys :
          Step(normal_handle(app, key, Context(height, pending_g)))

PressVisualSelect ==
    /\ Running /\ app.mode.tag \in {"Visual", "VisualLine"}
    /\ \E key \in SelectKeys :
          Step(visual_handle(app, key, Context(height, pending_g)))

PressVisualBindingSelect ==
    /\ Running /\ app.mode.tag \in {"Visual", "VisualLine"}
    /\ \E key \in SelectKeys :
          Step(lookup_and_run(VISUAL_BINDINGS, key, app, Context(height, pending_g)))

PressHelpSelect ==
    /\ Running /\ app.mode.tag = "Help"
    /\ \E key \in SelectKeys : Step(help_handle(app, key, Context(height, pending_g)))

InitSelect == InitOn({DocEmpty, DocPara}, Heights)

NextSelect ==
    \/ PressNormalSelect
    \/ PressVisualSelect
    \/ PressVisualBindingSelect
    \/ PressHelpSelect

SpecSelect == InitSelect /\ [][NextSelect]_vars

\* Cancelling a selection: normal mode with the keys that open a selection,
\* start a search and move the cursor, search mode, and visual mode under
\* both dispatchers.
CancelKeys ==
    {Char("v"), Char("V"), Char("/"), Char("n"), Char("j"), Char("l"),
     Char("w"), Ctrl("c")}

PressNormalCancel ==
    /\ Running /\ app.mode.tag = "Normal"
    /\ \E key \in CancelKeys :
          Step(normal_handle(app, key, Context(height, pending_g)))

PressVisualCancel ==
    /\ Running /\ app.mode.tag \in {"Visual", "VisualLine"}
    /\ \E key \in CancelKeys :
          Step(visual_handle(app, key, Context(height, pending_g)))

PressVisualBindingCancel ==
    /\ Running /\ app.mode.tag \in {"Visual", "VisualLine"}
    /\ \E key \in CancelKeys :
          Step(lookup_and_run(VISUAL_BINDINGS, key, app, Context(height, pending_g)))

InitCancel == InitOn({DocTiny, DocAbAb}, Heights)

NextCancel ==
    \/ PressNormalCancel
    \/ PressVisualCancel
    \/ PressVisualBindingCancel
    \/ PressSearch

SpecCancel == InitCancel /\ [][NextCancel]_vars

\* Commands: normal mode with the keys that move the cursor, open a
\* selection, open the help screen and open the command line; visual mode
\* through its binding table; the help screen; and command mode through its
\* binding table, where the lines below are typed.
TemplateLines ==
    {<<"e", " ", "h", "e", "l", "l", "o">>,
     <<"s">>,
     <<"x">>,
     <<"d">>,
     <<"u">>,
     <<"q">>,
     <<"h", "e", "l", "p">>}

CommandKeys ==
    {Char(":"), Char("v"), Char("w"), Char("b"), Char("j"), Char("?"),
     Special("Esc")}

TypedCommandKeys(a, lines) ==
    {Ctrl("c"), Special("Esc"), Special("Enter"), Special("Backspace")}
    \cup {Char(c) : c \in {c \in UNION {Range(t) : t \in lines} :
              \E t \in lines : IsPrefix(Append(a.mode.buf, c), t)}}

PressNormalCommand ==
    /\ Running /\ app.mode.tag = "Normal"
    /\ \E key \in CommandKeys :
          Step(normal_handle(app, key, Context(height, pending_g)))

PressVisualBindingCommand ==
    /\ Running /\ app.mode.tag \in {"Visual", "VisualLine"}
    /\ \E key \in CommandKeys :
          Step(lookup_and_run(VISUAL_BINDINGS, key, app, Context(height, pending_g)))

PressHelpCommand ==
    /\ Running /\ app.mode.tag = "Help"
    /\ \E key \in CommandKeys : Step(help_handle(app, key, Context(height, pending_g)))

PressCommandBinding ==
    /\ Running /\ app.mode.tag = "Command"
    /\ \E key \in TypedCommandKeys(app, TemplateLines) :
          Step(command_binding_handle(app, key, Context(height, pending_g)))

InitCommand == InitOn({DocFoo, DocPara}, Heights)

NextCommand ==
    \/ PressNormalCommand
    \/ PressVisualBindingCommand
    \/ PressHelpCommand
    \/ PressCommandBinding

SpecCommand == InitCommand /\ [][NextCommand]_vars

\* Order of the replacements: normal mode with the keys that move the
\* cursor right and open the command line, and command mode, where a line
\* whose free text is itself a placeholder is typed and submitted once it
\* is complete.
OrderLines ==
    {<<"x", " ", "{", "c", "o", "l", "}">>,
     <<"x", " ", "{", "e", "n", "d", "_", "c", "o", "l", "}">>,
     <<"e", " ", "{", "l", "i", "n", "e", "}">>,
     <<"d">>,
     <<"s">>}

OrderKeys == {Char(":"), Char("l"), Char("j"), Char("v"), Char("?"), Special("Esc")}

TypedOrderKeys(a) ==
    {k \in TypedCommandKeys(a, OrderLines) :
        k = Special("Enter") => a.mode.buf \in OrderLines}

PressNormalOrder ==
    /\ Running /\ app.mode.tag = "Normal"
    /\ \E key \in OrderKeys :
          Step(normal_handle(app, key, Context(height, pending_g)))

PressCommandOrder ==
    /\ Running /\ app.mode.tag = "Command"
    /\ \E key \in TypedOrderKeys(app) :
          Step(command_binding_handle(app, key, Context(height, pending_g)))

PressVisualBindingOrder ==
    /\ Running /\ app.mode.tag \in {"Visual", "VisualLine"}
    /\ \E key \in OrderKeys :
          Step(lookup_and_run(VISUAL_BINDINGS, key, app, Context(height, pending_g)))

PressHelpOrder ==
    /\ Running /\ app.mode.tag = "Help"
    /\ \E key \in OrderKeys : Step(help_handle(app, key, Context(height, pending_g)))

InitOrder == InitOn({DocTiny}, {MaxHeight})

NextOrder ==
    \/ PressNormalOrder
    \/ PressVisualBindingOrder
    \/ PressHelpOrder
    \/ PressCommandOrder

SpecOrder == InitOrder /\ [][NextOrder]_vars

\* Paging: the motion keys in terminals of the heights above and of two
\* taller ones, the taller of them the height of the half-page example of
\* the specification.
PageHeights == Heights \cup {MaxHeight + 2, 10}

InitPage == InitOn({DocEmpty, DocTiny, DocRuns, DocPara}, PageHeights)

SpecPage == InitPage /\ [][PressMotion]_vars

\* The composed view: sessions on a document that carries overlays, with
\* the row motions, each of which reads the composed view.
OverlayContents == {<<>>, <<<<"o">>>>, <<<<"p">>, <<"q", "q">>>>}

OverlayItems ==
    [after_line : 0..MaxAnchor, content : OverlayContents]

\* Overlay lists sorted by after_line.
SortedOverlays ==
    {ovs \in UNION {[1..k -> OverlayItems] : k \in 0..MaxOverlays} :
        \A i \in 1..Len(ovs) : \A j \in i..Len(ovs) :
            ovs[i].after_line <= ovs[j].after_line}

ComposeKeys == {Char("j"), Char("k")}

PressCompose ==
    /\ Running /\ app.mode.tag = "Normal"
    /\ \E key \in ComposeKeys :
          Step(normal_handle(app, key, Context(height, pending_g)))

InitCompose ==
    /\ app \in {[App_new(d) EXCEPT !.overlays = ovs] :
                   d \in {DocEmpty, DocTiny}, ovs \in SortedOverlays}
    /\ height = MaxHeight
    /\ pending_g = FALSE
    /\ quit = FALSE
    /\ overflow_checks \in BOOLEAN
    /\ last_cmd = "None"
    /\ spawned = None
    /\ pages = 0
    /\ command_arg = <<>>
    /\ parsed = None

SpecCompose == InitCompose /\ [][PressCompose]_vars

\* Requests at the edges: the single-step motions, the backward word
\* motion and hit navigation, in normal mode, in a selection and after a
\* search.
EdgeKeys ==
    {Char("h"), Char("j"), Char("k"), Char("l"), Char("b"), Char("n"),
     Char("N"), Char("v"), Char("/"), Ctrl("c")}

PressNormalEdge ==
    /\ Running /\ app.mode.tag = "Normal"
    /\ \E key \in EdgeKeys :
          Step(normal_handle(app, key, Context(height, pending_g)))

PressVisualEdge ==
    /\ Running /\ app.mode.tag \in {"Visual", "VisualLine"}
    /\ \E key \in EdgeKeys :
          Step(visual_handle(app, key, Context(height, pending_g)))

PressVisualBindingEdge ==
    /\ Running /\ app.mode.tag \in {"Visual", "VisualLine"}
    /\ \E key \in EdgeKeys :
          Step(lookup_and_run(VISUAL_BINDINGS, key, app, Context(height, pending_g)))

InitEdge == InitOn({DocEmpty, DocTiny}, Heights)

NextEdge ==
    \/ PressNormalEdge
    \/ PressVisualEdge
    \/ PressVisualBindingEdge
    \/ PressSearch

SpecEdge == InitEdge /\ [][NextEdge]_vars

\* Leaving the session: every mode under each of its dispatchers, with the
\* keys that change the mode, q with and without Ctrl, and a motion.
QuitKeys ==
    {Char("q"), Ctrl("q"), Char("v"), Char("V"), Char(":"), Char("/"),
     Char("?"), Char("j"), Ctrl("c"), Special("Esc")}

PressNormalQuit ==
    /\ Running /\ app.mode.tag = "Normal"
    /\ \E key \in QuitKeys :
          Step(normal_handle(app, key, Context(height, pending_g)))

PressVisualQuit ==
    /\ Running /\ app.mode.tag \in {"Visual", "VisualLine"}
    /\ \E key \in QuitKeys :
          Step(visual_handle(app, key, Context(height, pending_g)))

PressVisualBindingQuit ==
    /\ Running /\ app.mode.tag \in {"Visual", "VisualLine"}
    /\ \E key \in QuitKeys :
          Step(lookup_and_run(VISUAL_BINDINGS, key, app, Context(height, pending_g)))

PressCommandBindingQuit ==
    /\ Running /\ app.mode.tag = "Command"
    /\ \E key \in TypedKeys(app) :
          Step(command_binding_handle(app, key, Context(height, pending_g)))

PressHelpBindingQuit ==
    /\ Running /\ app.mode.tag = "Help"
    /\ \E key \in QuitKeys :
          Step(lookup_and_run(HELP_BINDINGS, key, app, Context(height, pending_g)))

PressHelpQuit ==
    /\ Running /\ app.mode.tag = "Help"
    /\ \E key \in QuitKeys :
          Step(help_handle(app, key, Context(height, pending_g)))

InitQuit == InitOn({DocEmpty, DocTiny}, {MaxHeight})

NextQuit ==
    \/ PressNormalQuit
    \/ PressVisualQuit
    \/ PressVisualBindingQuit
    \/ PressCommand
    \/ PressCommandBindingQuit
    \/ PressSearch
    \/ PressHelpQuit
    \/ PressHelpBindingQuit

SpecQuit == InitQuit /\ [][NextQuit]_vars

\* Word motion back and forth: w, b and the single-step motions.
WordKeys ==
    {Char("w"), Char("b"), Char("h"), Char("j"), Char("k"), Char("l")}

PressWord ==
    /\ Running /\ app.mode.tag = "Normal"
    /\ \E key \in WordKeys :
          Step(normal_handle(app, key, Context(height, pending_g)))

InitWord == InitOn({DocTiny, DocGap, DocFoo}, Heights)

SpecWord == InitWord /\ [][PressWord]_vars

\* A terminal that is resized: run_app reads the height anew for every key,
\* and an Event::Resize between two keys changes nothing else.
Resize ==
    /\ Running
    /\ height' \in Heights \ {height}
    /\ last_cmd' = "Resize"
    /\ UNCHANGED <<app, pending_g, quit, overflow_checks, spawned, pages,
                   command_arg, parsed>>

InitResize == InitOn({DocTiny, DocPara}, Heights)

NextResize == PressMotion \/ Resize

SpecResize == InitResize /\ [][NextResize]_vars

\* Paging down and back: some half-page-down keys, then as many
\* half-page-up keys.
PageDown ==
    /\ Running /\ app.mode.tag = "Normal"
    /\ last_cmd \in {"None", "HalfPageDown"}
    /\ pages < MaxPages
    /\ StepCounting(normal_handle(app, Ctrl("d"), Context(height, pending_g)),
                    pages + 1)

PageUp ==
    /\ Running /\ app.mode.tag = "Normal"
    /\ pages > 0
    /\ StepCounting(normal_handle(app, Ctrl("u"), Context(height, pending_g)),
                    pages - 1)

InitRoundTrip == InitOn(Docs, PageHeights)

NextRoundTrip == PageDown \/ PageUp

SpecRoundTrip == InitRoundTrip /\ [][NextRoundTrip]_vars

\* A terminal resized between a few rows and the tallest the u16 of
\* terminal.size() can report (height is that number less one).
TallestHeight == U16Modulus - 2

WideHeights == {1, 2, TallestHeight}

ResizeWide ==
    /\ Running
    /\ height' \in WideHeights \ {height}
    /\ last_cmd' = "Resize"
    /\ UNCHANGED <<app, pending_g, quit, overflow_checks, spawned, pages,
                   command_arg, parsed>>

\* The motion keys but the half-page keys.
WideKeys ==
    {Char("j"), Char("k"), Char("l"), Char("w"), Char("b"), Char("{"),
     Char("}"), Char("H"), Char("M"), Char("L"), Char("G")}

PressWide ==
    /\ Running /\ app.mode.tag = "Normal"
    /\ \E key \in WideKeys :
          Step(normal_handle(app, key, Context(height, pending_g)))

InitWide == InitOn({DocTiny, DocPara}, WideHeights)

NextWide == PressWide \/ ResizeWide

SpecWide == InitWide /\ [][NextWide]_vars

\* Built-in command lines: a command table that names its entries q and
\* help, beside the table of the session; normal mode with the keys that
\* open the command line and move the cursor; the help screen; and command
\* mode under both dispatchers, where the lines below are typed.
BuiltinCommands ==
    (<<"q">> :> [name |-> <<"q">>,
           template |-> <<"r", " ", "{", "a", "r", "g", "s", "}">>])
    @@ (<<"h", "e", "l", "p">> :> [name |-> <<"h", "e", "l", "p">>,
           template |-> <<"m", " ", "{", "a", "r", "g", "s", "}">>])

BuiltinLines ==
    {<<" ", "q", " ">>,
     <<"q", " ", "x">>,
     <<"q", "x">>,
     <<"h", "e", "l", "p", " ", "x">>}

BuiltinKeys == {Char(":"), Char("w"), Char("j"), Special("Esc")}

PressNormalBuiltin ==
    /\ Running /\ app.mode.tag = "Normal"
    /\ \E key \in BuiltinKeys :
          Step(normal_handle(app, key, Context(height, pending_g)))

PressHelpBuiltin ==
    /\ Running /\ app.mode.tag = "Help"
    /\ \E key \in BuiltinKeys : Step(help_handle(app, key, Context(height, pending_g)))

PressCommandBuiltin ==
    /\ Running /\ app.mode.tag = "Command"
    /\ \E key \in TypedCommandKeys(app, BuiltinLines) :
          Step(command_handle(app, key, Context(height, pending_g)))

PressCommandBindingBuiltin ==
    /\ Running /\ app.mode.tag = "Command"
    /\ \E key \in TypedCommandKeys(app, BuiltinLines) :
          Step(command_binding_handle(app, key, Context(height, pending_g)))

InitBuiltin ==
    /\ \E d \in {DocTiny, DocFoo} :
          \E t \in {Commands, BuiltinCommands} :
              app = [App_new(d) EXCEPT !.commands = t]
    /\ height = MaxHeight
    /\ pending_g = FALSE
    /\ quit = FALSE
    /\ overflow_checks \in BOOLEAN
    /\ last_cmd = "None"
    /\ spawned = None
    /\ pages = 0
    /\ command_arg = <<>>
    /\ parsed = None

NextBuiltin ==
    \/ PressNormalBuiltin
    \/ PressHelpBuiltin
    \/ PressCommandBuiltin
    \/ PressCommandBindingBuiltin

SpecBuiltin == InitBuiltin /\ [][NextBuiltin]_vars

\* Parsing one --command argument: every text of at most MaxArgLen bytes
\* over a letter, the colon, the blank and the tab.
ArgChars == {"a", ":", " ", "\t"}

RECURSIVE ArgsOfLen(_)
ArgsOfLen(n) ==
    IF n = 0 THEN {<<>>}
    ELSE {Append(t, c) : t \in ArgsOfLen(n - 1), c \in ArgChars}

Args == UNION {ArgsOfLen(n) : n \in 0..MaxArgLen}

ParseCommand ==
    /\ parsed = None
    /\ parsed' = Some(from_str(command_arg))
    /\ UNCHANGED <<app, height, pending_g, quit, overflow_checks, last_cmd,
                   spawned, pages, command_arg>>

InitParse ==
    /\ app = App_new(DocEmpty)
    /\ height = MaxHeight
    /\ pending_g = FALSE
    /\ quit = FALSE
    /\ overflow_checks = TRUE
    /\ last_cmd = "None"
    /\ spawned = None
    /\ pages = 0
    /\ command_arg \in Args
    /\ parsed = None

SpecParse == InitParse /\ [][ParseCommand]_vars

-----------------------------------------------------------------------------
(* Vocabulary of the claims                                                *)

NumRows(a) == Len(display_lines(a))

\* 0 <= col <= len(row text), and 0 <= row < number of rows (row 0 on an
\* empty document).
CursorInBounds(a) ==
    /\ IF NumRows(a) = 0 THEN a.cursor_y = 0 ELSE a.cursor_y < NumRows(a)
    /\ a.cursor_x <= line_len(a, a.cursor_y)

\* scroll <= row < scroll + height
CursorVisible(a, h) == a.scroll <= a.cursor_y /\ a.cursor_y < a.scroll + h

MotionCommands ==
    {"MoveLeft", "MoveRight", "MoveUp", "MoveDown", "MoveWordForward",
     "MoveWordBackward", "MoveParagraphUp", "MoveParagraphDown", "HalfPageUp",
     "HalfPageDown", "CursorTop", "CursorMiddle", "CursorBottom",
     "GotoFirstOrPending", "GotoLastLine", "SearchSubmit", "NextHit", "PrevHit"}

-----------------------------------------------------------------------------
(* C1  Clamp invariant                                                     *)

\* C1: after every motion intent of a session with a fixed viewport height
\* (of at least one row, so that the window scroll..scroll+height-1 is not
\* empty), the cursor is inside the document (col <= length of its row,
\* row < number of rows, row 0 on an empty document) and inside the window.
ClampInvariant ==
    (last_cmd \in MotionCommands /\ height >= 1 /\ ~app.panicked)
        => CursorInBounds(app) /\ CursorVisible(app, height)

-----------------------------------------------------------------------------
(* C2  Totality                                                            *)

\* C2: no operation fails, on any document (the empty one included) and for
\* any height (0 included): the session never panics, and every operation
\* leaves the cursor inside the document.
CoreTotal == ~app.panicked /\ CursorInBounds(app)

-----------------------------------------------------------------------------
(* C3  Word motion on "foo bar_baz 42!!"                                   *)

WordForwardOnFoo(third) ==
    (/\ app.doc = DocFoo
     /\ last_cmd' = "MoveWordForward"
     /\ app.cursor_y = 0)
    => /\ app'.cursor_y = 0
       /\ (app.cursor_x = 0 => app'.cursor_x = 4)
       /\ (app.cursor_x = 4 => app'.cursor_x = 12)
       /\ (app.cursor_x = 12 => app'.cursor_x = third)

\* C3 as stated: from column 0 of "foo bar_baz 42!!", move_word_forward
\* lands on column 4, then 12, then 15.
WordForwardFooAsStated == [][WordForwardOnFoo(15)]_vars

\* C3 as amended: from column 0 of "foo bar_baz 42!!", move_word_forward
\* lands on column 4, then 12, then 14 (the first byte of the run "!!").
WordForwardFoo == [][WordForwardOnFoo(14)]_vars

WordForwardFooReached ==
    /\ app.doc = DocFoo
    /\ last_cmd = "MoveWordForward"
    /\ app.cursor_y = 0 /\ app.cursor_x = 14

-----------------------------------------------------------------------------
(* C4  Word motion lands on the next run                                   *)

\* The positions of a document: every byte, and one past the last byte of
\* every row (the line break; on the last row, the end of the document).
Positions(lines) ==
    UNION {{<<y, x>> : x \in 0..Len(lines[y + 1].text)} : y \in 0..(Len(lines) - 1)}

ValidPositions(lines) ==
    {p \in Positions(lines) : p[2] <= Len(lines[p[1] + 1].text)}

pos_lt(p, q) == p[1] < q[1] \/ (p[1] = q[1] /\ p[2] < q[2])

\* A line break counts as whitespace; the end of the document has no class.
ClassAt(lines, p) ==
    IF p[2] < Len(lines[p[1] + 1].text)
    THEN byte_class(lines[p[1] + 1].text[p[2] + 1])
    ELSE IF p[1] + 1 < Len(lines) THEN "whitespace" ELSE "end"

FirstOf(S) == CHOOSE p \in S : \A q \in S : p = q \/ pos_lt(p, q)

\* The first byte of the next non-whitespace run after the run (or the
\* whitespace) at p, or the end of the document.
NextRunStart(lines, p) ==
    LET P   == ValidPositions(lines)
        c   == ClassAt(lines, p)
        e   == IF c \in {"whitespace", "end"} THEN p
               ELSE FirstOf({q \in P : pos_lt(p, q) /\ ClassAt(lines, q) # c})
    IN FirstOf({q \in P : ~pos_lt(q, e) /\ ClassAt(lines, q) # "whitespace"})

\* C4: on a non-empty document with the cursor in bounds, move_word_forward
\* lands on the first byte of the next non-whitespace run, or at the end of
\* the document, a row boundary counting as whitespace.
WordForwardNextRun ==
    [][(/\ last_cmd' = "MoveWordForward"
        /\ NumRows(app) > 0
        /\ CursorInBounds(app)
        /\ ~app'.panicked)
       => <<app'.cursor_y, app'.cursor_x>>
             = NextRunStart(display_lines(app), <<app.cursor_y, app.cursor_x>>)]_vars

-----------------------------------------------------------------------------
(* C5  The hit list                                                        *)

OccursAt(text, q, x) ==
    /\ x + Len(q) <= Len(text)
    /\ \A k \in 1..Len(q) : text[x + k] = q[k]

\* The columns of the non-overlapping occurrences of q in a row, read left
\* to right: an occurrence counts unless an earlier counted occurrence
\* covers its first byte.
CountedColumns(text, q) ==
    LET counted[x \in 0..Len(text)] ==
            /\ OccursAt(text, q, x)
            /\ \A w \in 0..(x - 1) : w + Len(q) > x => ~counted[w]
    IN {x \in 0..Len(text) : counted[x]}

ExpectedHits(lines, q) ==
    UNION {{<<y, x>> : x \in CountedColumns(lines[y + 1].text, q)} :
              y \in 0..(Len(lines) - 1)}

StrictlyAscending(hits) ==
    \A i \in 1..(Len(hits) - 1) : pos_lt(hits[i], hits[i + 1])

Str_ab == <<"a", "b">>

Str_aa == <<"a", "a">>

\* C5: while a query q is active, the hit list holds exactly the
\* non-overlapping occurrences of q of every row, in row-major order;
\* ["ab ab", "ab"] with "ab" gives (0,0), (0,3), (1,0) and "aaa" with "aa"
\* gives the one hit (0,0).
HitsAreTheOccurrences ==
    IsSome(app.search_query) =>
        LET q == Unwrap(app.search_query)
        IN /\ Range(app.search_hits) = ExpectedHits(display_lines(app), q)
           /\ StrictlyAscending(app.search_hits)
           /\ (app.doc = DocAbAb /\ q = Str_ab
                  => app.search_hits = << <<0, 0>>, <<0, 3>>, <<1, 0>> >>)
           /\ (app.doc = DocAaa /\ q = Str_aa
                  => app.search_hits = << <<0, 0>> >>)

HitsOfAbAbReached ==
    /\ last_cmd = "SearchSubmit"
    /\ app.doc = DocAbAb
    /\ app.search_query = Some(Str_ab)
    /\ Len(app.search_hits) = 3

-----------------------------------------------------------------------------
(* C6  The search state is well-formed                                     *)

\* C6: the hit list is strictly ascending in (row, col); the current-hit
\* index, when present, is below the number of hits; it is present exactly
\* when there is a hit; and there is no hit while no query is active.
SearchWellFormed ==
    /\ StrictlyAscending(app.search_hits)
    /\ IsSome(app.current_hit) => Unwrap(app.current_hit) < Len(app.search_hits)
    /\ IsSome(app.current_hit) <=> app.search_hits # <<>>
    /\ app.search_query = None => app.search_hits = <<>>

LastHitCurrentReached ==
    /\ last_cmd = "PrevHit"
    /\ Len(app.search_hits) = 3
    /\ app.current_hit = Some(2)

-----------------------------------------------------------------------------
(* C7  next_hit and prev_hit                                               *)

HitStep(visible_from) ==
    (/\ last_cmd' \in {"NextHit", "PrevHit"}
     /\ app.search_hits # <<>>
     /\ IsSome(app.current_hit))
    => LET n == Len(app.search_hits)
           i == Unwrap(app.current_hit)
           j == IF last_cmd' = "NextHit" THEN (i + 1) % n ELSE (i + n - 1) % n
       IN /\ app'.current_hit = Some(j)
          /\ <<app'.cursor_y, app'.cursor_x>> = app.search_hits[j + 1]
          /\ app'.search_hits = app.search_hits
          /\ height >= visible_from => CursorVisible(app', height)
          /\ last_cmd' = "NextHit"
                => prev_hit(app', height).current_hit = app.current_hit

\* C7 as stated: next_hit / prev_hit move the current hit to (i+1) mod n /
\* (i-1) mod n, put the cursor on that hit and leave it inside the window
\* for any height; prev_hit after next_hit restores the index.
HitNavigationAsStated == [][HitStep(0)]_vars

\* C7 as amended: the same, the cursor being inside the window when the
\* height is at least 1 (a window of height 0 holds no row).
HitNavigation == [][HitStep(1)]_vars

NextHitWrappedReached ==
    /\ last_cmd = "NextHit"
    /\ Len(app.search_hits) = 3
    /\ app.current_hit = Some(0)
    /\ height >= 1

-----------------------------------------------------------------------------
(* C8  set_search_query                                                    *)

SubmitStep ==
    (last_cmd' = "SearchSubmit" /\ app.mode.tag = "Search")
    => LET q        == app.mode.buf
           expected == ExpectedHits(display_lines(app), q)
           same_cursor == /\ app'.cursor_y = app.cursor_y
                          /\ app'.cursor_x = app.cursor_x
       IN /\ q = <<>> =>
                /\ app'.search_query = None
                /\ app'.search_hits = <<>>
                /\ app'.current_hit = None
                /\ same_cursor
          /\ (q # <<>> /\ expected # {}) =>
                /\ app'.current_hit = Some(0)
                /\ <<app'.cursor_y, app'.cursor_x>> = FirstOf(expected)
          /\ (q # <<>> /\ expected = {}) =>
                /\ app'.search_hits = <<>>
                /\ app'.current_hit = None
                /\ same_cursor

\* C8: an empty query clears query, hits and current hit and keeps the
\* cursor; a query with a hit makes hit 0 current and puts the cursor on
\* the first hit in document order; a query without hit leaves no hit, no
\* current hit and the cursor where it was.
SubmitSetsSearchState == [][SubmitStep]_vars

SubmitJumpedBackReached ==
    /\ last_cmd = "SearchSubmit"
    /\ app.doc = DocRuns
    /\ app.search_query = Some(<<"b">>)
    /\ app.current_hit = Some(0)
    /\ <<app.cursor_y, app.cursor_x>> = <<0, 1>>

-----------------------------------------------------------------------------
(* C9  Selection normalization                                             *)

LexLE(p, q) == p[1] < q[1] \/ (p[1] = q[1] /\ p[2] <= q[2])

\* C9: the normalized range of anchor and cursor is the two positions in
\* lexicographic (row, col) order, whichever was set first; anchor (2,5)
\* and cursor (0,1) give start (0,1), end (2,5).
SelectionNormalized ==
    IsSome(app.selection_start) =>
        LET anchor == Unwrap(app.selection_start)
            cursor == <<app.cursor_y, app.cursor_x>>
            range  == normalize(anchor, cursor)
        IN /\ LexLE(range[1], range[2])
           /\ {range[1], range[2]} = {anchor, cursor}
           /\ normalize(cursor, anchor) = range
           /\ ({anchor, cursor} = {<<2, 5>>, <<0, 1>>}
                  => range = << <<0, 1>>, <<2, 5>> >>)

BackwardSelectionReached ==
    /\ app.mode.tag = "Visual"
    /\ app.selection_start = Some(<<2, 5>>)
    /\ <<app.cursor_y, app.cursor_x>> = <<0, 1>>

-----------------------------------------------------------------------------
(* C10  The anchor outside selection mode                                  *)

\* C10: whenever the mode is neither Visual nor VisualLine, no selection
\* anchor is set.
AnchorOnlyInSelectionMode ==
    app.mode.tag \notin {"Visual", "VisualLine"} => app.selection_start = None
-----------------------------------------------------------------------------
(* C11  Cancelling a selection                                             *)

CancelStep ==
    (/\ last_cmd' = "CancelSelection"
     /\ app.mode.tag \in {"Visual", "VisualLine"})
    => /\ app'.mode = Mode("Normal")
       /\ app'.selection_start = None
       /\ app'.cursor_y = app.cursor_y
       /\ app'.cursor_x = app.cursor_x
       /\ app'.scroll = app.scroll
       /\ app'.search_query = app.search_query
       /\ app'.search_hits = app.search_hits
       /\ app'.current_hit = app.current_hit

\* C11: Ctrl-C in Visual or VisualLine mode sets the mode to Normal and
\* discards the anchor; cursor row, cursor col, scroll and the search state
\* (query, hits, current hit) stay as they were.
CancelKeepsCursorAndSearch == [][CancelStep]_vars

CancelledAwayFromOriginReached ==
    /\ last_cmd = "CancelSelection"
    /\ app.mode.tag = "Normal"
    /\ app.selection_start = None
    /\ app.search_hits # <<>>
    /\ app.cursor_y > 0
    /\ app.scroll > 0

-----------------------------------------------------------------------------
(* C12  Template substitution                                              *)

\* The text with every occurrence of the token (counted left to right,
\* without overlap) replaced by the value.
Substitute(text, token, value) ==
    LET at == CountedColumns(text, token)
        piece(x) == IF x \in at THEN value
                    ELSE IF \E w \in at : w < x /\ x < w + Len(token) THEN <<>>
                    ELSE <<text[x + 1]>>
        upto[n \in 0..Len(text)] ==
            IF n = 0 THEN <<>> ELSE upto[n - 1] \o piece(n - 1)
    IN upto[Len(text)]

\* The maximal runs of non-whitespace bytes of a text, left to right.
Words(text) ==
    LET word(i)  == ~is_ascii_whitespace(text[i])
        starts   == {i \in 1..Len(text) : word(i) /\ (i = 1 \/ ~word(i - 1))}
        last(i)  == CHOOSE j \in i..Len(text) :
                        /\ \A k \in i..j : word(k)
                        /\ (j = Len(text) \/ ~word(j + 1))
        nth(k)   == CHOOSE i \in starts : Cardinality({j \in starts : j < i}) = k - 1
    IN [k \in 1..Cardinality(starts) |-> SubSeq(text, nth(k), last(nth(k)))]

\* The decimal numeral of a number below 100.
Numeral(n) ==
    IF n < 10 THEN <<Digits[n + 1]>>
    ELSE <<Digits[(n \div 10) + 1], Digits[(n % 10) + 1]>>

\* The name of a command line (its bytes up to the first whitespace) and
\* the free text after the name.
NameOf(line) ==
    SubSeq(line, 1, CHOOSE n \in 0..Len(line) :
                        /\ \A k \in 1..n : ~is_ascii_whitespace(line[k])
                        /\ (n = Len(line) \/ is_ascii_whitespace(line[n + 1])))

ArgsOf(line) == SubSeq(line, Len(NameOf(line)) + 2, Len(line))

\* The command line without the whitespace that ends it.
Stripped(line) ==
    SubSeq(line, 1, CHOOSE n \in 0..Len(line) :
                        /\ \A k \in (n + 1)..Len(line) : is_ascii_whitespace(line[k])
                        /\ (n = 0 \/ ~is_ascii_whitespace(line[n])))

\* Start and end of the selection: anchor and cursor in (row, col) order,
\* or the cursor twice when no anchor is set.
SelectionStart(a) ==
    LET cursor == <<a.cursor_y, a.cursor_x>>
    IN IF a.selection_start = None \/ LexLE(cursor, Unwrap(a.selection_start))
       THEN cursor ELSE Unwrap(a.selection_start)

SelectionEnd(a) ==
    LET cursor == <<a.cursor_y, a.cursor_x>>
    IN IF a.selection_start = None \/ LexLE(Unwrap(a.selection_start), cursor)
       THEN cursor ELSE Unwrap(a.selection_start)

\* The template with its placeholders replaced by the 1-based cursor, the
\* free text and the 1-based selection range.
Resolved(template, a, args) ==
    LET t1 == Substitute(template, TokLine, Numeral(a.cursor_y + 1))
        t2 == Substitute(t1, TokCol, Numeral(a.cursor_x + 1))
        t3 == Substitute(t2, TokArgs, args)
        t4 == Substitute(t3, TokStartLine, Numeral(SelectionStart(a)[1] + 1))
        t5 == Substitute(t4, TokStartCol, Numeral(SelectionStart(a)[2] + 1))
        t6 == Substitute(t5, TokEndLine, Numeral(SelectionEnd(a)[1] + 1))
    IN Substitute(t6, TokEndCol, Numeral(SelectionEnd(a)[2] + 1))

EchoTemplate == <<"e", "c", "h", "o", " ", "{", "l", "i", "n", "e", "}", " ", "{", "c", "o", "l", "}", " ", "{", "a", "r", "g", "s", "}">>

Str_hello == <<"h", "e", "l", "l", "o">>

TemplateStep ==
    (/\ last_cmd' = "CommandSubmit"
     /\ app.mode.tag = "Command"
     /\ NameOf(app.mode.buf) \in DOMAIN app.commands)
    => LET template == app.commands[NameOf(app.mode.buf)].template
           args     == ArgsOf(Stripped(app.mode.buf))
           words    == Words(Resolved(template, app, args))
       IN /\ words # <<>> => spawned' = Some(words)
          /\ (/\ template = EchoTemplate
              /\ args = Str_hello
              /\ <<app.cursor_y, app.cursor_x>> = <<0, 0>>)
             => spawned' = Some(<< <<"e", "c", "h", "o">>, <<"1">>, <<"1">>, Str_hello >>)

\* C12: submitting "<name> <args>", <name> naming a template, hands over
\* the words (program first, arguments after) of the template with {line}
\* replaced by row + 1, {col} by col + 1 and {args} by the free text;
\* "echo {line} {col} {args}" at (0,0) with "hello" gives echo 1 1 hello.
SubmitResolvesTemplate == [][TemplateStep]_vars

EchoHelloReached ==
    /\ last_cmd = "CommandSubmit"
    /\ spawned = Some(<< <<"e", "c", "h", "o">>, <<"1">>, <<"1">>, Str_hello >>)

-----------------------------------------------------------------------------
(* C13  Selection placeholders                                             *)

SelTemplate == <<"s", "e", "l", " ", "{", "s", "t", "a", "r", "t", "_", "l", "i", "n", "e", "}", " ", "{", "s", "t", "a", "r", "t", "_", "c", "o", "l", "}", " ", "{", "e", "n", "d", "_", "l", "i", "n", "e", "}", " ", "{", "e", "n", "d", "_", "c", "o", "l", "}">>

SelectionStep ==
    (/\ last_cmd' = "CommandSubmit"
     /\ app.mode.tag = "Command"
     /\ NameOf(app.mode.buf) \in DOMAIN app.commands
     /\ app.commands[NameOf(app.mode.buf)].template = SelTemplate)
    => LET cursor == <<app.cursor_y, app.cursor_x>>
           anchor == app.selection_start
           first  == IF anchor # None /\ pos_lt(Unwrap(anchor), cursor)
                     THEN Unwrap(anchor) ELSE cursor
           second == IF anchor # None /\ pos_lt(cursor, Unwrap(anchor))
                     THEN Unwrap(anchor) ELSE cursor
       IN /\ spawned' = Some(<< <<"s", "e", "l">>,
                                Numeral(first[1] + 1), Numeral(first[2] + 1),
                                Numeral(second[1] + 1), Numeral(second[2] + 1) >>)
          /\ anchor = None =>
                spawned' = Some(<< <<"s", "e", "l">>,
                                   Numeral(app.cursor_y + 1), Numeral(app.cursor_x + 1),
                                   Numeral(app.cursor_y + 1), Numeral(app.cursor_x + 1) >>)

\* C13: at command submit {start_line} {start_col} {end_line} {end_col}
\* become the 1-based row and column of the earlier and of the later of
\* anchor and cursor when an anchor is set, and the 1-based row and column
\* of the cursor, twice, when none is set.
SubmitResolvesSelection == [][SelectionStep]_vars

\* A selection made backwards, from (0,4) to (0,0), then submitted.
BackwardSelectionSubmittedReached ==
    /\ last_cmd = "CommandSubmit"
    /\ app.selection_start = Some(<<0, 4>>)
    /\ <<app.cursor_y, app.cursor_x>> = <<0, 0>>
    /\ spawned = Some(<< <<"s", "e", "l">>, <<"1">>, <<"1">>, <<"1">>, <<"5">> >>)

-----------------------------------------------------------------------------
(* C14  Order of the replacements                                          *)

\* The seven replacements of a submit: token and value, in the order of the
\* code.
Replacements(a, args) ==
    << [token |-> TokLine,      value |-> to_string(a.cursor_y + 1)],
       [token |-> TokCol,       value |-> to_string(a.cursor_x + 1)],
       [token |-> TokArgs,      value |-> args],
       [token |-> TokStartLine, value |-> to_string(selection_range(a)[1][1] + 1)],
       [token |-> TokStartCol,  value |-> to_string(selection_range(a)[1][2] + 1)],
       [token |-> TokEndLine,   value |-> to_string(selection_range(a)[2][1] + 1)],
       [token |-> TokEndCol,    value |-> to_string(selection_range(a)[2][2] + 1)] >>

\* One more replacement applied to each text, in every way: a pair holds
\* the replacements applied so far and the text they gave.
OneMore(pairs, S, reps) ==
    UNION {{<<p[1] \cup {t}, replace(p[2], reps[t].token, reps[t].value)>> :
               t \in S \ p[1]} : p \in pairs}

RECURSIVE AllApplied(_, _, _, _)
AllApplied(pairs, S, reps, left) ==
    IF left = 0 THEN pairs
    ELSE AllApplied(OneMore(pairs, S, reps), S, reps, left - 1)

\* The texts that the replacements numbered in S give, applied to one of
\* the given texts in all the orders there are.
ResultsOf(texts, S, reps) ==
    {p[2] : p \in AllApplied({<<{}, x>> : x \in texts}, S, reps, Cardinality(S))}

\* The texts that the seven replacements give in any order.
AnyOrder(template, reps) == ResultsOf({template}, 1..7, reps)

\* The texts that the replacements give when {line} and {col} are replaced
\* first, in either order, then {args}, then the four selection
\* placeholders in any order.
AroundArgs(template, reps) ==
    ResultsOf({replace(x, reps[3].token, reps[3].value) :
                  x \in ResultsOf({template}, {1, 2}, reps)},
              4..7, reps)

OrderStep(results(_, _)) ==
    (/\ last_cmd' = "CommandSubmit"
     /\ app.mode.tag = "Command"
     /\ NameOf(app.mode.buf) \in DOMAIN app.commands)
    => LET template == app.commands[NameOf(app.mode.buf)].template
           args     == ArgsOf(Stripped(app.mode.buf))
       IN results(template, Replacements(app, args))
             = {resolve(template, app, args)}

\* C14: for any template, cursor, selection and free text (a free text that
\* is itself a placeholder included), the seven replacements applied in any
\* order give the string that the order of the code gives.
ReplacementOrderIndependent == [][OrderStep(AnyOrder)]_vars

\* C14 as amended: the replacements of {line} and {col} in either order,
\* then that of {args}, then those of the four selection placeholders in
\* any order, give the string that the order of the code gives.
ReplacementOrderAroundArgs == [][OrderStep(AroundArgs)]_vars

\* A free text that is a placeholder of a later replacement, submitted: the
\* code hands over the column of the cursor, not the text.
PlaceholderArgsReached ==
    /\ last_cmd = "CommandSubmit"
    /\ <<app.cursor_y, app.cursor_x>> = <<1, 1>>
    /\ spawned = Some(<< <<"2">> >>)

-----------------------------------------------------------------------------
(* C15  Unknown commands and empty commands                                *)

\* The command lines that are commands of the viewer itself.
BuiltInLines == {<< <<"q">> >>, << <<"h", "e", "l", "p">> >>}

IgnoredStep(excepted) ==
    (/\ last_cmd' = "CommandSubmit"
     /\ app.mode.tag = "Command"
     /\ Words(app.mode.buf) \notin excepted
     /\ LET name == NameOf(app.mode.buf)
        IN \/ name \notin DOMAIN app.commands
           \/ Words(Resolved(app.commands[name].template, app,
                             ArgsOf(Stripped(app.mode.buf)))) = <<>>)
    => /\ spawned' = None
       /\ app'.mode = Mode("Normal")
       /\ ~quit'
       /\ app' = [app EXCEPT !.mode = Mode("Normal")]

\* C15 as stated: submitting a line whose name is not in the command table,
\* or whose template resolves to no word, hands over no command, returns
\* to Normal mode, does not quit and leaves cursor, scroll, selection and
\* search state as they were.
SubmitIgnoredAsStated == [][IgnoredStep({})]_vars

\* C15 as amended: the same for every line but the two built-in lines, q
\* (which quits) and help (which opens the help screen).
SubmitIgnored == [][IgnoredStep(BuiltInLines)]_vars

\* A submit that handed over no command, away from the origin and with an
\* anchor set.
IgnoredSubmitReached ==
    /\ last_cmd = "CommandSubmit"
    /\ spawned = None
    /\ app.mode.tag = "Normal"
    /\ ~quit
    /\ app.selection_start # None
    /\ app.cursor_y > 0

-----------------------------------------------------------------------------
(* C16  Half-page motion                                                   *)

Max(a, b) == IF a >= b THEN a ELSE b

LastRow(a) == Max(NumRows(a) - 1, 0)

\* The column col clamped to the length of each of the given rows.
ClampedThrough(a, col, rows) ==
    CHOOSE c \in {col} \cup {line_len(a, r) : r \in rows} :
        \A d \in {col} \cup {line_len(a, r) : r \in rows} : c <= d

HalfPageStep ==
    (/\ last_cmd' \in {"HalfPageDown", "HalfPageUp"}
     /\ CursorInBounds(app))
    => LET n   == height \div 2
           row == app.cursor_y
       IN /\ ~app'.panicked
          /\ last_cmd' = "HalfPageDown" =>
                /\ app'.cursor_y = Min(row + n, LastRow(app))
                /\ app'.cursor_x =
                      ClampedThrough(app, app.cursor_x, (row + 1)..app'.cursor_y)
          /\ last_cmd' = "HalfPageUp" =>
                /\ app'.cursor_y = Max(row - n, 0)
                /\ app'.cursor_x =
                      ClampedThrough(app, app.cursor_x, app'.cursor_y..(row - 1))
          /\ (NumRows(app) = 4 /\ height = 10 /\ row = 0
              /\ last_cmd' = "HalfPageDown") => app'.cursor_y = 3

\* C16: from a cursor inside the document, half_page_down / half_page_up
\* are height / 2 single steps down / up: the row becomes
\* min(row + height/2, last row) / max(row - height/2, 0), and the column
\* is the starting column clamped to the length of every row stepped onto;
\* on four rows with height 10, half_page_down from row 0 ends on row 3.
HalfPageIsRepeatedStep == [][HalfPageStep]_vars

\* Two steps down across an empty row: the column is clamped on the way.
HalfPageClampedOnTheWayReached ==
    /\ last_cmd = "HalfPageDown"
    /\ app.doc = DocPara
    /\ height = MaxHeight + 2
    /\ <<app.cursor_y, app.cursor_x>> = <<2, 0>>

-----------------------------------------------------------------------------
(* C17  Paragraph motion                                                   *)

\* Row r of the composed view has an empty trimmed text.
BlankRow(a, r) == r < NumRows(a) /\ trim(display_lines(a)[r + 1].text) = <<>>

BlankBelow(a) == {r \in (a.cursor_y + 1)..(NumRows(a) - 1) : BlankRow(a, r)}

BlankAbove(a) == {r \in 0..(a.cursor_y - 1) : BlankRow(a, r)}

HasBlankRow(a) == \E r \in 0..(NumRows(a) - 1) : BlankRow(a, r)

ParagraphStep ==
    (/\ last_cmd' \in {"MoveParagraphDown", "MoveParagraphUp"}
     /\ CursorInBounds(app))
    => /\ ~app'.panicked
       /\ last_cmd' = "MoveParagraphDown" =>
             /\ app'.cursor_x = 0
             /\ IF BlankBelow(app) # {}
                THEN /\ app'.cursor_y \in BlankBelow(app)
                     /\ \A r \in BlankBelow(app) : app'.cursor_y <= r
                ELSE app'.cursor_y = LastRow(app)
             /\ (~HasBlankRow(app) /\ app.cursor_y = 0)
                    => app'.cursor_y = LastRow(app)
       /\ last_cmd' = "MoveParagraphUp" =>
             IF BlankAbove(app) # {}
             THEN /\ app'.cursor_y \in BlankAbove(app)
                  /\ \A r \in BlankAbove(app) : app'.cursor_y >= r
             ELSE app'.cursor_y = 0

\* C17: from a cursor inside the document, move_paragraph_down lands on the
\* first row strictly below the cursor whose trimmed text is empty, or on
\* the last row if there is none, at column 0; move_paragraph_up lands on
\* the nearest such row strictly above the cursor, or on row 0 if there is
\* none; without any blank row, move_paragraph_down from row 0 lands on the
\* last row.
ParagraphMotionFindsBlankRow == [][ParagraphStep]_vars

\* Landed on the whitespace-only last row of the document with blank rows.
ParagraphDownOnBlankRowReached ==
    /\ last_cmd = "MoveParagraphDown"
    /\ app.doc = DocPara
    /\ <<app.cursor_y, app.cursor_x>> = <<3, 0>>
    /\ BlankRow(app, 3)

-----------------------------------------------------------------------------
(* C18  Single-row motion                                                  *)

LineStep ==
    (/\ last_cmd' \in {"MoveDown", "MoveUp"}
     /\ CursorInBounds(app))
    => LET row == app.cursor_y
       IN /\ ~app'.panicked
          /\ last_cmd' = "MoveDown" =>
                /\ app'.cursor_y = IF row + 1 < NumRows(app) THEN row + 1 ELSE row
                /\ app'.scroll =
                      IF app'.cursor_y # row /\ app'.cursor_y >= app.scroll + height
                      THEN app'.cursor_y - height + 1
                      ELSE app.scroll
          /\ last_cmd' = "MoveUp" =>
                /\ app'.cursor_y = IF row > 0 THEN row - 1 ELSE row
                /\ app'.scroll =
                      IF app'.cursor_y # row /\ app'.cursor_y < app.scroll
                      THEN app'.cursor_y
                      ELSE app.scroll
          /\ app'.cursor_x = Min(app.cursor_x, line_len(app, app'.cursor_y))

\* C18: from a cursor inside the document, move_down / move_up change the
\* row by exactly 1 when the new row exists, set the column to
\* min(col, length of the new row), and set scroll to row - height + 1 when
\* the new row is at or past scroll + height (move_down), to row when the
\* new row is above scroll (move_up), and leave scroll unchanged otherwise.
LineMotionStepsOneRow == [][LineStep]_vars

\* A step down past the window: the cursor is the bottom visible row.
ScrolledDownByStepReached ==
    /\ last_cmd = "MoveDown"
    /\ height = 2
    /\ app.cursor_y = 3
    /\ app.scroll = 2
    /\ ~app.panicked

-----------------------------------------------------------------------------
(* C19  ensure_visible                                                     *)

\* The state with the cursor put on row y, as a motion leaves it before
\* ensure_visible runs.
OnRow(a, y) == [a EXCEPT !.cursor_y = y]

EnsureVisibleAt(a, h) ==
    LET e == ensure_visible(a, h)
    IN /\ ~e.panicked
       /\ ensure_visible(e, h) = e
       /\ <<e.cursor_y, e.cursor_x>> = <<a.cursor_y, a.cursor_x>>
       /\ CursorVisible(a, h) => e.scroll = a.scroll
       /\ h >= 1 => CursorVisible(e, h)
       /\ [e EXCEPT !.scroll = a.scroll] = a

-----------------------------------------------------------------------------
(* C20  Screen-relative motion                                             *)

ScreenCommands == {"CursorTop", "CursorMiddle", "CursorBottom"}

\* The row the claim gives for each of the three commands.
ScreenRow(a, h, cmd) ==
    CASE cmd = "CursorTop"    -> a.scroll
      [] cmd = "CursorMiddle" -> Min(a.scroll + (h \div 2), LastRow(a))
      [] cmd = "CursorBottom" -> Min(a.scroll + h - 1, LastRow(a))

ScreenStepOn(rows, heights) ==
    (/\ last_cmd' \in ScreenCommands
     /\ CursorInBounds(app)
     /\ NumRows(app) \in rows
     /\ height \in heights)
    => /\ ~app'.panicked
       /\ app'.cursor_y = ScreenRow(app, height, last_cmd')
       /\ app'.cursor_x = Min(app.cursor_x, line_len(app, app'.cursor_y))
       /\ CursorVisible(app, height) => app'.scroll = app.scroll

\* C20: from a cursor inside the document, cursor_top, cursor_middle and
\* cursor_bottom set the row to scroll, min(scroll + height/2, last row)
\* and min(scroll + height - 1, last row), set the column to
\* min(col, length of the new row), and leave scroll unchanged when the
\* cursor was visible.
ScreenMotionRows == [][ScreenStepOn(0..MaxRow, Heights)]_vars

\* On a document with at least one row, in a window of at least one row,
\* the three commands do as stated.
ScreenMotionRowsInWindow == [][ScreenStepOn(1..MaxRow, 1..MaxHeight)]_vars

-----------------------------------------------------------------------------
(* C21  Composed view                                                      *)

RECURSIVE Flatten(_)
Flatten(seqs) ==
    IF seqs = <<>> THEN <<>> ELSE Head(seqs) \o Flatten(Tail(seqs))

OverlayRow(text) == [kind |-> "Overlay", text |-> text]

BaseRow(text) == [kind |-> "Original", text |-> text]

\* The content rows of the overlays that satisfy Anchored, in list order.
ContentOf(overlays, Anchored(_)) ==
    LET chosen == SelectSeq(overlays, Anchored)
    IN Flatten([k \in 1..Len(chosen) |->
                   [m \in 1..Len(chosen[k].content) |->
                       OverlayRow(chosen[k].content[m])]])

Interleaved(lines, overlays) ==
    Flatten([i \in 1..Len(lines) |->
                <<BaseRow(lines[i])>>
                \o ContentOf(overlays, LAMBDA o : o.after_line = i - 1)])
    \o ContentOf(overlays, LAMBDA o : o.after_line >= Len(lines))

TotalContent(overlays) == Len(ContentOf(overlays, LAMBDA o : TRUE))

\* C21: for an overlay list sorted by after_line, the composed view is every
\* base line in order, each followed by the content of the overlays anchored
\* after it in list order, then the content of the overlays anchored at or
\* past the number of base lines; its length is the number of base lines
\* plus the number of overlay content lines, and composing again gives the
\* same sequence.
ComposeInterleaves ==
    LET view == compose(app.doc, app.overlays)
    IN /\ view = Interleaved(app.doc, app.overlays)
       /\ Len(view) = Len(app.doc) + TotalContent(app.overlays)
       /\ compose(app.doc, app.overlays) = view

\* The cursor went down onto the content of the second of two overlays that
\* share an anchor, on a document that also has a trailing overlay.
CursorOnSharedAnchorOverlayReached ==
    /\ last_cmd = "MoveDown"
    /\ app.doc = DocTiny
    /\ Len(app.overlays) = 3
    /\ app.overlays[1].after_line = 0 /\ app.overlays[1].content = <<<<"o">>>>
    /\ app.overlays[2].after_line = 0 /\ app.overlays[2].content = <<<<"p">>, <<"q", "q">>>>
    /\ app.overlays[3].after_line = 2 /\ app.overlays[3].content = <<<<"o">>>>
    /\ app.cursor_y = 3
    /\ display_lines(app)[4] = OverlayRow(<<"q", "q">>)

-----------------------------------------------------------------------------
(* C22  Out-of-range requests                                              *)

\* The request of the step is one the claim calls out of range.
OutOfRange(a, cmd) ==
    \/ cmd = "MoveUp" /\ a.cursor_y = 0
    \/ cmd = "MoveDown" /\ a.cursor_y + 1 >= NumRows(a)
    \/ cmd = "MoveLeft" /\ a.cursor_x = 0
    \/ cmd = "MoveRight" /\ a.cursor_x = line_len(a, a.cursor_y)
    \/ cmd = "MoveWordBackward" /\ <<a.cursor_y, a.cursor_x>> = <<0, 0>>
    \/ cmd \in {"NextHit", "PrevHit"} /\ a.search_hits = <<>>

EdgeStep ==
    (OutOfRange(app, last_cmd') /\ CursorInBounds(app))
    => /\ ~app'.panicked
       /\ <<app'.cursor_y, app'.cursor_x, app'.scroll>>
              = <<app.cursor_y, app.cursor_x, app.scroll>>
       /\ app'.mode = app.mode
       /\ app'.selection_start = app.selection_start
       /\ <<app'.search_query, app'.search_hits, app'.current_hit>>
              = <<app.search_query, app.search_hits, app.current_hit>>
       /\ ~quit'

\* C22: move_up at row 0, move_down at the last row, move_left at column 0,
\* move_right at the end of the row, move_word_backward at (0,0), and
\* next_hit / prev_hit with an empty hit list leave cursor, scroll, mode,
\* selection anchor and search state unchanged.
OutOfRangeIsNoOp == [][EdgeStep]_vars

\* n after a search that matched nothing, away from the origin.
NextHitWithoutHitsReached ==
    /\ last_cmd = "NextHit"
    /\ app.search_query # None
    /\ app.search_hits = <<>>
    /\ app.cursor_y = 1

-----------------------------------------------------------------------------
(* C23  Quitting                                                           *)

\* Every key of the model, q with Ctrl, and the bytes typed into a buffer.
AnyKey ==
    Keys \cup QuitKeys \cup {Char(c) : c \in QueryChars \cup {"e", "p", " "}}

\* The results of the handlers that dispatch a key in the mode of a.
Dispatched(a, key, ctx) ==
    CASE a.mode.tag = "Normal" -> {normal_handle(a, key, ctx)}
      [] a.mode.tag \in {"Visual", "VisualLine"} ->
            {visual_handle(a, key, ctx),
             lookup_and_run(VISUAL_BINDINGS, key, a, ctx)}
      [] a.mode.tag = "Command" ->
            {command_handle(a, key, ctx), command_binding_handle(a, key, ctx)}
      [] a.mode.tag = "Search" -> {search_handle(a, key, ctx)}
      [] a.mode.tag = "Help" ->
            {help_handle(a, key, ctx), lookup_and_run(HELP_BINDINGS, key, a, ctx)}

\* buf is word with whitespace before and after it.
TrimsTo(buf, word) ==
    \E i \in 0..Len(buf) :
        /\ i + Len(word) <= Len(buf)
        /\ SubSeq(buf, i + 1, i + Len(word)) = word
        /\ \A k \in (1..i) \cup ((i + Len(word) + 1)..Len(buf)) :
              is_ascii_whitespace(buf[k])

\* The key is q, whatever its modifiers.
IsQ(key) == key.code = "Char" /\ key.ch = "q"

\* Enter on a command line that trims to word.
Submits(a, key, word) ==
    /\ a.mode.tag = "Command"
    /\ key = Special("Enter")
    /\ TrimsTo(a.mode.buf, word)

-----------------------------------------------------------------------------
(* C24  Highlighted selection range                                        *)

LexLess(p, q) == p[1] < q[1] \/ (p[1] = q[1] /\ p[2] < q[2])

LexLeq(p, q) == p = q \/ LexLess(p, q)

\* Byte c of row r is drawn reversed.
Highlighted(a, r, c) == ui(a)[r + 1][c + 1].reversed

\* C24: while a selection is drawn, with (start, end) the anchor and the
\* cursor in order, byte c of row r is highlighted, in line mode, iff
\* start.row <= r <= end.row, and in char mode iff
\* start <= (r, c) < end lexicographically; an anchor equal to the cursor
\* highlights nothing in char mode.
HighlightIsSelectionRange ==
    (IsSome(app.selection_start) /\ app.mode.tag # "Help" /\ ~app.panicked)
    => LET anchor == Unwrap(app.selection_start)
           cursor == <<app.cursor_y, app.cursor_x>>
           start  == IF LexLess(cursor, anchor) THEN cursor ELSE anchor
           end    == IF LexLess(cursor, anchor) THEN anchor ELSE cursor
       IN \A r \in 0..(NumRows(app) - 1) :
              \A c \in 0..(line_len(app, r) - 1) :
                  Highlighted(app, r, c) <=>
                      IF app.mode.tag = "VisualLine"
                      THEN start[1] <= r /\ r <= end[1]
                      ELSE LexLeq(start, <<r, c>>) /\ LexLess(<<r, c>>, end)

\* A backward char selection over three rows: the last row is highlighted
\* up to, not including, the anchor.
BackwardSelectionDrawnReached ==
    /\ app.mode.tag = "Visual"
    /\ app.doc = DocPara
    /\ app.selection_start = Some(<<2, 3>>)
    /\ <<app.cursor_y, app.cursor_x>> = <<0, 0>>
    /\ [i \in 1..5 |-> ui(app)[3][i].reversed] = <<TRUE, TRUE, TRUE, FALSE, FALSE>>

-----------------------------------------------------------------------------
(* C25  Word motion back and forth                                         *)

\* p is the first byte of a non-whitespace run: a byte that is not
\* whitespace, at the start of its row or after a byte of another class.
RunStart(lines, p) ==
    /\ p[1] < Len(lines)
    /\ p[2] < Len(lines[p[1] + 1].text)
    /\ byte_class(lines[p[1] + 1].text[p[2] + 1]) # "whitespace"
    /\ \/ p[2] = 0
       \/ byte_class(lines[p[1] + 1].text[p[2]])
             # byte_class(lines[p[1] + 1].text[p[2] + 1])

WordRoundTripStep ==
    LET lines == display_lines(app)
        from  == <<app.cursor_y, app.cursor_x>>
        to    == <<app'.cursor_y, app'.cursor_x>>
        back  == move_word_backward(app')
    IN (/\ last_cmd' = "MoveWordForward"
        /\ RunStart(lines, from)
        /\ RunStart(lines, to)
        /\ pos_lt(from, to))
       => <<back.cursor_y, back.cursor_x>> = from

\* C25: when move_word_forward takes the cursor from the first byte of a
\* non-whitespace run to the first byte of a later run, move_word_backward
\* applied next returns the cursor to where it was.
WordBackwardUndoesForward == [][WordRoundTripStep]_vars

-----------------------------------------------------------------------------
(* C26  The cursor stays visible when the viewport shrinks                 *)

StepCommands ==
    {"MoveLeft", "MoveRight", "MoveUp", "MoveDown", "HalfPageUp", "HalfPageDown"}

VisibleAfterStep ==
    (/\ last_cmd' \in StepCommands
     /\ height >= 1
     /\ CursorInBounds(app))
    => CursorVisible(app', height)

\* C26: after move_left, move_right, move_up, move_down, half_page_up or
\* half_page_down with a height h >= 1, scroll <= row < scroll + h, also
\* when the keys before were handled with a larger height.
StepKeepsCursorVisible == [][VisibleAfterStep]_vars

-----------------------------------------------------------------------------
(* C27  Paging down and back                                               *)

\* C27: from row 0 and scroll 0, n half_page_down calls followed by n
\* half_page_up calls with the same height leave the cursor on row 0 and
\* scroll at 0.
PagingRoundTrip ==
    (last_cmd = "HalfPageUp" /\ pages = 0)
    => /\ ~app.panicked
       /\ app.cursor_y = 0
       /\ app.scroll = 0

\* Half pages down a document of four rows and as many back up, in a
\* window of two rows.
PagedDownAndBackReached ==
    /\ last_cmd = "HalfPageUp"
    /\ pages = 0
    /\ height = 2
    /\ app.doc = DocPara
    /\ app.cursor_y = 0

-----------------------------------------------------------------------------
(* C28  gg                                                                 *)

SingleGStep ==
    (/\ app.mode.tag = "Normal"
     /\ last_cmd' = "GotoFirstOrPending"
     /\ last_cmd # "GotoFirstOrPending")
    => /\ app' = app
       /\ pending_g'

\* C28: a g pressed in Normal mode after any key other than g does not jump
\* to the first line: it leaves the cursor where it is and only starts a
\* new pending gg.
SingleGDoesNotJump == [][SingleGStep]_vars

-----------------------------------------------------------------------------
(* C29  Sixteen-bit scroll arithmetic                                      *)

\* The commands that end in ensure_visible.
EnsuringCommands ==
    {"MoveWordForward", "MoveWordBackward", "MoveParagraphUp",
     "MoveParagraphDown", "CursorTop", "CursorMiddle", "CursorBottom",
     "GotoLastLine"}

NoWrapStep ==
    (/\ last_cmd' \in EnsuringCommands
     /\ height >= 1
     /\ NumRows(app) >= 1
     /\ CursorInBounds(app))
    => /\ ~app'.panicked
       /\ CursorVisible(app', height)

\* C29: on a document with rows and for any height >= 1, the commands that
\* run ensure_visible, cursor_middle and cursor_bottom compute scroll and
\* row without overflow of scroll + height and without wrap-around, and
\* leave scroll <= row < scroll + height.
ScrollArithmeticExact == [][NoWrapStep]_vars

-----------------------------------------------------------------------------
(* C30  Help mode                                                          *)

\* C30: for every key pressed in Help mode, no handler quits or changes
\* anything of the state but the mode; q and Esc (without modifiers) set the
\* mode to Normal, and a key that is neither q nor Esc leaves it Help.
HelpIsInert ==
    (Running /\ app.mode.tag = "Help") =>
        \A key \in AnyKey :
            \A r \in Dispatched(app, key, Context(height, pending_g)) :
                /\ ~r.quit
                /\ r.app = [app EXCEPT !.mode = r.app.mode]
                /\ key \in {Char("q"), Special("Esc")}
                      => r.app.mode = Mode("Normal")
                /\ (~IsQ(key) /\ key.code # "Esc") => r.app.mode = app.mode

\* Help was opened from a selection after a search and closed again: cursor,
\* anchor and search state are those of before.
HelpClosedOverSelectionReached ==
    /\ last_cmd = "ExitHelp"
    /\ app.mode.tag = "Normal"
    /\ ~quit
    /\ IsSome(app.selection_start)
    /\ IsSome(app.search_query)
    /\ app.cursor_y = 1

-----------------------------------------------------------------------------
(* C31: what the keys of Search mode leave alone                           *)

\* The keys pressed on a search prompt, the letter c among them.
SearchAnyKey == AnyKey \cup {Char("c"), Special("Tab")}

\* The active search: query, hit list, current hit.
SearchState(a) == <<a.search_query, a.search_hits, a.current_hit>>

\* C31: in every state of Search mode and for every key, the handler never
\* quits; a character other than Ctrl-C and Backspace change nothing but the
\* buffer and stay in Search mode; Esc changes nothing but the mode, which
\* becomes Normal; Ctrl-C goes to Normal with no query, no hits and no
\* current hit, the cursor where it was; Enter goes to Normal with the buffer
\* as the active query (none for an empty buffer); and the active search
\* changes under no key but Enter and Ctrl-C.
SearchKeysFrame ==
    (Running /\ app.mode.tag = "Search") =>
        \A key \in SearchAnyKey :
            LET r == search_handle(app, key, Context(height, pending_g))
                buf == app.mode.buf
            IN /\ ~r.quit
               /\ (key.code \in {"Char", "Backspace"} /\ key # Ctrl("c")) =>
                      /\ r.app.mode.tag = "Search"
                      /\ r.app = [app EXCEPT !.mode = r.app.mode]
                      /\ r.app.mode.buf # buf \/ (key.code = "Backspace" /\ buf = <<>>)
               /\ key = Special("Esc") =>
                      r.app = [app EXCEPT !.mode = Mode("Normal")]
               /\ key = Ctrl("c") =>
                      /\ r.app.mode = Mode("Normal")
                      /\ SearchState(r.app) = <<None, <<>>, None>>
                      /\ r.app.cursor_x = app.cursor_x
                      /\ r.app.cursor_y = app.cursor_y
               /\ key = Special("Enter") =>
                      /\ r.app.mode = Mode("Normal")
                      /\ r.app.search_query = IF buf = <<>> THEN None ELSE Some(buf)
               /\ SearchState(r.app) # SearchState(app) =>
                      key \in {Special("Enter"), Ctrl("c")}

\* A search prompt was left with Esc over an active search with hits: the
\* earlier query, its hits and the current hit are still there.
EscKeepsActiveSearchReached ==
    /\ last_cmd = "ExitSearch"
    /\ app.mode.tag = "Normal"
    /\ IsSome(app.search_query)
    /\ app.search_hits # <<>>
    /\ IsSome(app.current_hit)

-----------------------------------------------------------------------------
(* C32: word motion is monotone and reaches its fixed point                *)

Position(a) == <<a.cursor_y, a.cursor_x>>

\* The end of the document: (last row, length of last row).
EndPosition(a) == <<LastRow(a), line_len(a, LastRow(a))>>

\* The number of cursor positions of the document.
RECURSIVE PositionsFrom(_, _)
PositionsFrom(a, r) ==
    IF r >= NumRows(a) THEN 0 ELSE line_len(a, r) + 1 + PositionsFrom(a, r + 1)

RECURSIVE repeat_word_forward(_, _)
repeat_word_forward(a, n) ==
    IF n = 0 THEN a ELSE repeat_word_forward(move_word_forward(a), n - 1)

RECURSIVE repeat_word_backward(_, _)
repeat_word_backward(a, n) ==
    IF n = 0 THEN a ELSE repeat_word_backward(move_word_backward(a), n - 1)

\* C32: from every state with the cursor in bounds, move_word_forward leaves
\* the cursor in bounds at a position not smaller in (row, col) order, and at
\* a larger one unless the cursor is at (last row, length of last row);
\* move_word_backward leaves it in bounds at a position not larger, and at a
\* smaller one unless the cursor is at (0, 0); repeating the forward motion
\* as often as the document has positions ends at (last row, length of last
\* row), repeating the backward motion ends at (0, 0), and each motion
\* leaves its end position where it is.
WordMotionMonotone ==
    (~app.panicked /\ CursorInBounds(app)) =>
        LET f  == move_word_forward(app)
            b  == move_word_backward(app)
            n  == PositionsFrom(app, 0)
            fn == repeat_word_forward(app, n)
            bn == repeat_word_backward(app, n)
        IN /\ ~f.panicked /\ CursorInBounds(f)
           /\ LexLeq(Position(app), Position(f))
           /\ Position(app) # EndPosition(app) => LexLess(Position(app), Position(f))
           /\ ~b.panicked /\ CursorInBounds(b)
           /\ LexLeq(Position(b), Position(app))
           /\ Position(app) # <<0, 0>> => LexLess(Position(b), Position(app))
           /\ Position(fn) = EndPosition(app)
           /\ move_word_forward(fn) = fn
           /\ Position(bn) = <<0, 0>>
           /\ move_word_backward(bn) = bn

\* The forward word motion has crossed a row boundary and come to rest at
\* the end of a document of several rows.
WordForwardAtEndReached ==
    /\ last_cmd = "MoveWordForward"
    /\ ~app.panicked
    /\ NumRows(app) > 1
    /\ Position(app) = EndPosition(app)
    /\ app.cursor_x > 0

-----------------------------------------------------------------------------
(* C33: the built-in command lines come before the command table           *)

\* The first whitespace-delimited word of a trimmed line, and the text
\* after the whitespace byte that ends it.
FirstWord(cmd) == SubSeq(cmd, 1, word_len(cmd))

AfterFirstWord(cmd) == SubSeq(cmd, word_len(cmd) + 2, Len(cmd))

\* The command the table gives for a trimmed line that is no built-in.
ThroughTable(a, cmd) ==
    IF FirstWord(cmd) \in DOMAIN a.commands
    THEN LET words == split_whitespace(
                          resolve(a.commands[FirstWord(cmd)].template, a,
                                  AfterFirstWord(cmd)))
         IN IF words # <<>> THEN Some(words) ELSE None
    ELSE None

\* C33: in every state of Command mode, Enter on a buffer that trims to
\* exactly "q" quits and Enter on one that trims to exactly "help" opens the
\* help screen, under either dispatcher, with no command dispatched,
\* whatever the command table names; Enter on any other buffer neither
\* quits nor opens the help screen under either dispatcher, and
\* CommandSubmit dispatches what the table gives for the first
\* whitespace-delimited word of the trimmed line, with the rest as its
\* argument text.
BuiltinsBeforeTable ==
    (Running /\ app.mode.tag = "Command") =>
        LET ctx == Context(height, pending_g)
            buf == app.mode.buf
            r   == command_binding_handle(app, Special("Enter"), ctx)
            h   == command_handle(app, Special("Enter"), ctx)
        IN IF TrimsTo(buf, <<"q">>)
           THEN r.quit /\ h.quit /\ r.spawned = None
           ELSE IF TrimsTo(buf, <<"h", "e", "l", "p">>)
           THEN /\ ~r.quit /\ ~h.quit
                /\ r.app.mode = Mode("Help") /\ h.app.mode = Mode("Help")
                /\ r.spawned = None
           ELSE /\ ~r.quit /\ ~h.quit
                /\ r.app.mode = Mode("Normal") /\ h.app.mode = Mode("Normal")
                /\ r.spawned = ThroughTable(app, trim(buf))

\* The line "q x" was submitted with a table that names an entry q: the
\* session goes on and the entry's program was dispatched with x.
QWithArgsThroughTableReached ==
    /\ last_cmd = "CommandSubmit"
    /\ ~quit
    /\ app.mode.tag = "Normal"
    /\ <<"q">> \in DOMAIN app.commands
    /\ spawned = Some(<<<<"r">>, <<"x">>>>)

\* The line " q " was submitted with a table that names an entry q: the
\* session has quit and nothing was dispatched.
BuiltinQOverTableReached ==
    /\ last_cmd = "CommandSubmit"
    /\ quit
    /\ <<"q">> \in DOMAIN app.commands
    /\ app.mode = ModeWith("Command", <<" ", "q", " ">>)
    /\ spawned = None

-----------------------------------------------------------------------------
(* C34: CommandSpec::from_str                                              *)

\* The text has no whitespace at either end.
Trimmed(t) ==
    t = <<>> \/ (~is_ascii_whitespace(t[1]) /\ ~is_ascii_whitespace(t[Len(t)]))

\* C34: once a --command argument is parsed, the result is Ok exactly when
\* the argument contains a ':' and neither the text before the first ':'
\* nor the text after it is whitespace only; the name is then the text
\* before the first ':' without the whitespace around it, the template the
\* text after it without the whitespace around it, later ':' included, and
\* neither is empty; in every other case the result is an error.
FromStrParses ==
    IsSome(parsed) =>
        LET res    == Unwrap(parsed)
            s      == command_arg
            at     == {i \in 1..Len(s) : s[i] = ":"}
            first  == CHOOSE i \in at : \A j \in at : i <= j
            before == SubSeq(s, 1, first - 1)
            after  == SubSeq(s, first + 1, Len(s))
        IN IF at # {} /\ ~trim_is_empty(before) /\ ~trim_is_empty(after)
           THEN /\ res.ok
                /\ res.name # <<>> /\ res.template # <<>>
                /\ Trimmed(res.name) /\ Trimmed(res.template)
                /\ TrimsTo(before, res.name)
                /\ TrimsTo(after, res.template)
           ELSE ~res.ok

\* An argument with whitespace around its name and a second ':' was
\* parsed: the second ':' is part of the template.
LaterColonInTemplateReached ==
    /\ IsSome(parsed)
    /\ Unwrap(parsed).ok
    /\ ":" \in Range(Unwrap(parsed).template)
    /\ Len(command_arg) > Len(Unwrap(parsed).name) + 1 + Len(Unwrap(parsed).template)

====
